---- MODULE Spec2Model ----
(***************************************************************************)
(* Logic-Lab: the circuit evaluation engine (engine/gates.ts,              *)
(* engine/circuit.ts, engine/ic.ts) and the zustand store that drives it   *)
(* (store/circuitStore.ts).                                                *)
(*                                                                         *)
(* Maps (JS objects / Map) are functions over a finite set of strings; a   *)
(* missing key is a key outside the DOMAIN.  Arrays are sequences.         *)
(* An InternalState value is a tagged variant, because it is either a      *)
(* boolean or a nested InternalState (types.ts InternalState).             *)
(***************************************************************************)
EXTENDS Integers, Sequences, FiniteSets, TLC

\* ------------------------------------------------------------------------
\* Generic helpers for maps and arrays
\* ------------------------------------------------------------------------

EmptyMap == <<>>

\* map[key] ?? default
Get(map, key, default) == IF key \in DOMAIN map THEN map[key] ELSE default

\* map[key] = value
Put(map, key, value) ==
    [k \in (DOMAIN map) \cup {key} |-> IF k = key THEN value ELSE map[k]]

SeqToSet(s) == {s[i] : i \in 1..Len(s)}

MaxOf(S) == CHOOSE m \in S : \A n \in S : n <= m

\* inputs[i] of a JS array (0-based i); out of range reads undefined, which
\* every use below treats as falsy.
At(inputs, i) == IF i + 1 <= Len(inputs) THEN inputs[i + 1] ELSE FALSE

\* ------------------------------------------------------------------------
\* engine/types.ts
\* ------------------------------------------------------------------------

GateType ==
    {"AND", "OR", "NOT", "NAND", "NOR", "XOR", "XNOR", "INPUT", "OUTPUT",
     "CLOCK", "D_FF", "JK_FF", "T_FF", "SR_LATCH", "IC_CUSTOM"}

GATE_INPUT_COUNTS ==
    [t \in GateType |->
        CASE t \in {"AND", "OR", "NAND", "NOR", "XOR", "XNOR"} -> 2
          [] t = "NOT" -> 1
          [] t \in {"INPUT", "CLOCK", "IC_CUSTOM"} -> 0
          [] t = "OUTPUT" -> 1
          [] t \in {"D_FF", "T_FF", "SR_LATCH"} -> 2
          [] t = "JK_FF" -> 3]

\* InternalState values: boolean | InternalState
Bit(b) == [tag |-> "bit", bit |-> b]
Sub(m) == [tag |-> "map", map |-> m]

\* A node without data.icId (undefined)
NoIcId == ""

\* CircuitNode; icId models (node as any).data?.icId
Node(id, type, label, inputCount, icId) ==
    [id |-> id, type |-> type, label |-> label, inputCount |-> inputCount,
     icId |-> icId]

Edge(source, sourceHandle, target, targetHandle) ==
    [source |-> source, sourceHandle |-> sourceHandle,
     target |-> target, targetHandle |-> targetHandle]

InputHandle(i) == "input-" \o ToString(i)
IcInHandle(pinId) == "ic-in-" \o pinId
IcOutHandle(pinId) == "ic-out-" \o pinId

\* ------------------------------------------------------------------------
\* engine/gates.ts
\* ------------------------------------------------------------------------

evaluateAnd(inputs) == \A i \in 1..Len(inputs) : inputs[i]

evaluateOr(inputs) == \E i \in 1..Len(inputs) : inputs[i]

\* !inputs[0]
evaluateNot(inputs) == ~At(inputs, 0)

evaluateNand(inputs) == ~evaluateAnd(inputs)

evaluateNor(inputs) == ~evaluateOr(inputs)

RECURSIVE XorReduce(_, _, _)
XorReduce(inputs, i, acc) ==
    IF i > Len(inputs) THEN acc
    ELSE XorReduce(inputs, i + 1, acc # inputs[i])

\* XOR read as "exactly one input is true"
evaluateXorExactlyOne(inputs) ==
    Cardinality({i \in 1..Len(inputs) : inputs[i]}) = 1

\* inputs.reduce((acc, val) => acc !== val, false)
evaluateXor(inputs) == XorReduce(inputs, 1, FALSE)

evaluateXnor(inputs) == ~evaluateXor(inputs)

evaluateGate(type, inputs) ==
    CASE type = "AND" -> evaluateAnd(inputs)
      [] type = "OR" -> evaluateOr(inputs)
      [] type = "NOT" -> evaluateNot(inputs)
      [] type = "NAND" -> evaluateNand(inputs)
      [] type = "NOR" -> evaluateNor(inputs)
      [] type = "XOR" -> evaluateXor(inputs)
      [] type = "XNOR" -> evaluateXnor(inputs)
      [] OTHER -> FALSE

isSequential(type) == type \in {"D_FF", "JK_FF", "T_FF", "SR_LATCH"}

\* case GT.D_FF with the edge test dropped: transparent while CLK is high
DFFLevelTriggered(inputs, prevInputs, currentState) ==
    LET d == At(inputs, 0)
        clk == At(inputs, 1)
    IN  IF clk THEN d ELSE currentState

\* case GT.D_FF: inputs [D, CLK]
DFFNext(inputs, prevInputs, currentState) ==
    LET d == At(inputs, 0)
        clk == At(inputs, 1)
        prevClk == At(prevInputs, 1)
    IN  IF clk /\ ~prevClk THEN d ELSE currentState

\* case GT.T_FF toggling on every rising edge, whatever T is
TFFAlwaysToggles(inputs, prevInputs, currentState) ==
    LET clk == At(inputs, 1)
        prevClk == At(prevInputs, 1)
    IN  IF clk /\ ~prevClk THEN ~currentState ELSE currentState

\* case GT.T_FF: inputs [T, CLK]
TFFNext(inputs, prevInputs, currentState) ==
    LET t == At(inputs, 0)
        clk == At(inputs, 1)
        prevClk == At(prevInputs, 1)
    IN  IF clk /\ ~prevClk
        THEN (IF t THEN ~currentState ELSE currentState)
        ELSE currentState

\* case GT.JK_FF: inputs [J, K, CLK]
JKFFNext(inputs, prevInputs, currentState) ==
    LET j == At(inputs, 0)
        k == At(inputs, 1)
        clk == At(inputs, 2)
        prevClk == At(prevInputs, 2)
    IN  IF clk /\ ~prevClk
        THEN (IF j /\ k THEN ~currentState
              ELSE IF j THEN TRUE
              ELSE IF k THEN FALSE
              ELSE currentState)
        ELSE currentState

\* case GT.SR_LATCH with S = R = 1 holding the state
SRLatchHoldsOnInvalid(inputs, prevInputs, currentState) ==
    LET s == At(inputs, 0)
        r == At(inputs, 1)
    IN  IF s /\ ~r THEN TRUE
        ELSE IF ~s /\ r THEN FALSE
        ELSE currentState

\* case GT.SR_LATCH: inputs [S, R], level triggered
SRLatchNext(inputs, prevInputs, currentState) ==
    LET s == At(inputs, 0)
        r == At(inputs, 1)
    IN  IF s /\ ~r THEN TRUE
        ELSE IF ~s /\ r THEN FALSE
        ELSE IF s /\ r THEN FALSE
        ELSE currentState

evaluateSequentialGate(type, inputs, prevInputs, currentState) ==
    CASE type = "D_FF" -> DFFNext(inputs, prevInputs, currentState)
      [] type = "T_FF" -> TFFNext(inputs, prevInputs, currentState)
      [] type = "JK_FF" -> JKFFNext(inputs, prevInputs, currentState)
      [] type = "SR_LATCH" -> SRLatchNext(inputs, prevInputs, currentState)
      [] OTHER -> currentState

\* ------------------------------------------------------------------------
\* engine/circuit.ts: topologicalSort, findCycleNodeIds
\* ------------------------------------------------------------------------

NodeIdsOf(nodes) == {nodes[i].id : i \in 1..Len(nodes)}

\* nodeMap.get(id): the node last stored under id
NodeById(nodes, id) ==
    nodes[MaxOf({i \in 1..Len(nodes) : nodes[i].id = id})]

\* every edge with a known source counts, register or not
CountsEveryEdge(nodes, edge) == edge.source \in NodeIdsOf(nodes)

\* edges from INPUT and CLOCK nodes skipped as well, as if every seeded
\* node were ready at the start
CountsOnlyGateEdges(nodes, edge) ==
    /\ edge.source \in NodeIdsOf(nodes)
    /\ ~isSequential(NodeById(nodes, edge.source).type)
    /\ NodeById(nodes, edge.source).type \notin {"INPUT", "CLOCK"}

\* sourceNode && !isSequential(sourceNode.type)
CountsAsDependency(nodes, edge) ==
    /\ edge.source \in NodeIdsOf(nodes)
    /\ ~isSequential(NodeById(nodes, edge.source).type)

\* The two maps after the loops of lines 102-117: inDegree (with the
\* insertion order of its keys) and adjacency.
RECURSIVE CountDependencies(_, _, _, _)
CountDependencies(nodes, edges, i, acc) ==
    IF i > Len(edges) THEN acc
    ELSE LET edge == edges[i]
         IN  IF CountsAsDependency(nodes, edge)
             THEN CountDependencies(nodes, edges, i + 1,
                    [inDegree |-> Put(acc.inDegree, edge.target,
                                      Get(acc.inDegree, edge.target, 0) + 1),
                     keys |-> IF edge.target \in DOMAIN acc.inDegree
                              THEN acc.keys
                              ELSE Append(acc.keys, edge.target),
                     adjacency |-> [acc.adjacency EXCEPT
                                      ![edge.source] = Append(@, edge.target)]])
             ELSE CountDependencies(nodes, edges, i + 1, acc)

\* for (const target of adjacency.get(id) || []) { ... }
RECURSIVE Relax(_, _, _, _)
Relax(targets, k, queue, inDegree) ==
    IF k > Len(targets) THEN [queue |-> queue, inDegree |-> inDegree]
    ELSE LET target == targets[k]
             cur == Get(inDegree, target, 0)
             newDeg == (IF cur = 0 THEN 1 ELSE cur) - 1
         IN  Relax(targets, k + 1,
                   IF newDeg = 0 THEN Append(queue, target) ELSE queue,
                   Put(inDegree, target, newDeg))

\* while (queue.length > 0) { ... }
RECURSIVE KahnLoop(_, _, _, _, _)
KahnLoop(nodes, adjacency, queue, inDegree, sorted) ==
    IF queue = <<>> THEN sorted
    ELSE LET id == Head(queue)
             sorted2 == IF id \in NodeIdsOf(nodes)
                        THEN Append(sorted, NodeById(nodes, id))
                        ELSE sorted
             r == Relax(Get(adjacency, id, <<>>), 1, Tail(queue), inDegree)
         IN  KahnLoop(nodes, adjacency, r.queue, r.inDegree, sorted2)

\* The array `sorted` when the while loop of topologicalSort ends
ResolvedOrder(nodes, edges) ==
    LET ids == [i \in 1..Len(nodes) |-> nodes[i].id]
        init == [inDegree |-> [id \in NodeIdsOf(nodes) |-> 0],
                 keys |-> ids,
                 adjacency |-> [id \in NodeIdsOf(nodes) |-> <<>>]]
        deps == CountDependencies(nodes, edges, 1, init)
        zero(id) == deps.inDegree[id] = 0
        queue == SelectSeq(deps.keys, zero)
    IN  KahnLoop(nodes, deps.adjacency, queue, deps.inDegree, <<>>)

\* CircuitNode[] | null
topologicalSort(nodes, edges) ==
    LET sorted == ResolvedOrder(nodes, edges)
    IN  IF Len(sorted) # Len(nodes)
        THEN [isNull |-> TRUE, sorted |-> <<>>]
        ELSE [isNull |-> FALSE, sorted |-> sorted]

findCycleNodeIds(nodes, edges) ==
    LET valid(e) == /\ e.source \in NodeIdsOf(nodes)
                    /\ ~isSequential(NodeById(nodes, e.source).type)
        validEdges == SelectSeq(edges, valid)
        sorted == topologicalSort(nodes, validEdges)
        sortedIds == IF sorted.isNull THEN {}
                     ELSE {sorted.sorted[i].id : i \in 1..Len(sorted.sorted)}
        excluded(n) == n.id \notin sortedIds
        rest == SelectSeq(nodes, excluded)
    IN  IF ~sorted.isNull /\ Len(sorted.sorted) = Len(nodes) THEN <<>>
        ELSE [i \in 1..Len(rest) |-> rest[i].id]

\* ------------------------------------------------------------------------
\* engine/circuit.ts: evaluateCircuit
\* ------------------------------------------------------------------------

getPrimaryOutput(nodeOutputs, nodeId, handleId) ==
    IF nodeId \notin DOMAIN nodeOutputs THEN FALSE
    ELSE LET outputs == nodeOutputs[nodeId]
         IN  IF handleId \in DOMAIN outputs THEN outputs[handleId]
             ELSE IF "output" \in DOMAIN outputs THEN outputs["output"]
             ELSE IF "Q" \in DOMAIN outputs THEN outputs["Q"]
             ELSE FALSE

\* Index of the edge whose set() on (target, targetHandle) is the last one
LastEdgeTo(edges, target, handle) ==
    MaxOf({i \in 1..Len(edges) :
              edges[i].target = target /\ edges[i].targetHandle = handle})

HandlesInto(edges, target) ==
    {edges[i].targetHandle : i \in {j \in 1..Len(edges) : edges[j].target = target}}

\* TargetID -> HandleID -> SourceID
targetMap(edges) ==
    [t \in {edges[i].target : i \in 1..Len(edges)} |->
        [h \in HandlesInto(edges, t) |-> edges[LastEdgeTo(edges, t, h)].source]]

\* TargetID -> HandleID -> SourceHandle
edgeMap(edges) ==
    [t \in {edges[i].target : i \in 1..Len(edges)} |->
        [h \in HandlesInto(edges, t) |->
            edges[LastEdgeTo(edges, t, h)].sourceHandle]]

\* sourceId ? getPrimaryOutput(outputs, sourceId, sourceHandle) : false
ReadHandle(outputs, tMap, eMap, nodeId, handleId) ==
    LET handleMap == Get(tMap, nodeId, EmptyMap)
        sourceId == Get(handleMap, handleId, "")
    IN  IF sourceId # ""
        THEN getPrimaryOutput(outputs, sourceId, eMap[nodeId][handleId])
        ELSE FALSE

\* for (let i = 0; i < node.inputCount; i++) inputs.push(...)
GatherInputs(outputs, tMap, eMap, node) ==
    [i \in 1..node.inputCount |->
        ReadHandle(outputs, tMap, eMap, node.id, InputHandle(i - 1))]

\* typeof stateVal === 'boolean' ? stateVal : false
StateBit(internalState, id) ==
    IF id \in DOMAIN internalState /\ internalState[id].tag = "bit"
    THEN internalState[id].bit
    ELSE FALSE

\* A lookup that never finds a nested state
StateSubTreeAlwaysEmpty(internalState, id) == EmptyMap

\* (typeof currentState === 'object' && currentState !== null) ? currentState : {}
StateSubTree(internalState, id) ==
    IF id \in DOMAIN internalState /\ internalState[id].tag = "map"
    THEN internalState[id].map
    ELSE EmptyMap

\* 2. Initialize Sources (Inputs + Sequential Current State)
InitSources(nodes, inputValues, internalState) ==
    [id \in NodeIdsOf(nodes) |->
        LET node == NodeById(nodes, id)
        IN  IF node.type \in {"INPUT", "CLOCK"}
            THEN [h \in {"output"} |-> Get(inputValues, id, FALSE)]
            ELSE IF isSequential(node.type)
            THEN LET state == StateBit(internalState, id)
                 IN  [h \in {"Q", "output", "Q_bar"} |->
                        IF h = "Q_bar" THEN ~state ELSE state]
            ELSE EmptyMap]

\* A lookup that falls back on the first definition of the library
FindICOrFirst(icLibrary, icId) ==
    LET S == {i \in 1..Len(icLibrary) : icLibrary[i].id = icId}
    IN  IF S = {} THEN (IF Len(icLibrary) > 0 THEN 1 ELSE 0)
        ELSE CHOOSE i \in S : \A j \in S : i <= j

\* icLibrary.find(ic => ic.id === icId): index of the first match, 0 if none
FindIC(icLibrary, icId) ==
    LET S == {i \in 1..Len(icLibrary) : icLibrary[i].id = icId}
    IN  IF S = {} THEN 0 ELSE CHOOSE i \in S : \A j \in S : i <= j

\* The node objects that carry a _tempNextState field are named by
\* <<id of the IC definition that owns the node ("" for the graph of the
\* outermost call), node id>>.
OwnScratch(ids) == {<<"", id>> : id \in ids}

AdoptScratch(scratch, icDefId) ==
    {IF p[1] = "" THEN <<icDefId, p[2]>> ELSE p : p \in scratch}

RECURSIVE evaluateCircuit(_, _, _, _, _, _)

\* An IC branch that hands the nested call the pins' present levels as its
\* previous-output snapshot
EvaluateICLevelAsPrevious(node, icDef, outputs, tMap, eMap, internalState, icLibrary) ==
    LET pinIds(pins) == {pins[i].id : i \in 1..Len(pins)}
        icInputs == [p \in pinIds(icDef.inputPins) |->
                        ReadHandle(outputs, tMap, eMap, node.id, IcInHandle(p))]
        icState == StateSubTree(internalState, node.id)
        result == evaluateCircuit(icDef.nodes, icDef.edges, icInputs, icState,
                                  [p \in DOMAIN icInputs |->
                                      [h \in {"output"} |-> icInputs[p]]],
                                  icLibrary)
        outHandles == {IcOutHandle(p) : p \in pinIds(icDef.outputPins)}
        pinOf(h) == CHOOSE p \in pinIds(icDef.outputPins) : IcOutHandle(p) = h
    IN  [outputs |-> [h \in outHandles |->
                        Get(result.circuitOutputs, pinOf(h), FALSE)],
         tempNextState |-> result.nextState,
         scratch |-> AdoptScratch(result.scratch, icDef.id)]

\* The IC_CUSTOM branch of step 3 for one node whose definition was found.
\* Returns the node's outputs, the value stored in node._tempNextState and
\* the scratch fields the nested call left on the definition's nodes.
EvaluateIC(node, icDef, outputs, tMap, eMap, internalState, icLibrary) ==
    LET pinIds(pins) == {pins[i].id : i \in 1..Len(pins)}
        icInputs == [p \in pinIds(icDef.inputPins) |->
                        ReadHandle(outputs, tMap, eMap, node.id, IcInHandle(p))]
        icState == StateSubTree(internalState, node.id)
        result == evaluateCircuit(icDef.nodes, icDef.edges, icInputs, icState,
                                  EmptyMap, icLibrary)
        outHandles == {IcOutHandle(p) : p \in pinIds(icDef.outputPins)}
        pinOf(h) == CHOOSE p \in pinIds(icDef.outputPins) : IcOutHandle(p) = h
    IN  [outputs |-> [h \in outHandles |->
                        Get(result.circuitOutputs, pinOf(h), FALSE)],
         tempNextState |-> result.nextState,
         scratch |-> AdoptScratch(result.scratch, icDef.id)]

\* 3. Evaluate Combinational Logic: the loop over `sorted`.
\* acc.nodeOutputs is nodeOutputs; acc.temp maps each node that carries a
\* _tempNextState to it; acc.scratch is what nested calls left behind.
RECURSIVE EvaluateSorted(_, _, _, _, _, _, _)
EvaluateSorted(sorted, i, acc, tMap, eMap, internalState, icLibrary) ==
    IF i > Len(sorted) THEN acc
    ELSE
    LET node == sorted[i]
        outs == acc.nodeOutputs
        next(a) == EvaluateSorted(sorted, i + 1, a, tMap, eMap, internalState,
                                  icLibrary)
        setOutput(v) ==
            [acc EXCEPT !.nodeOutputs =
                Put(outs, node.id, Put(outs[node.id], "output", v))]
    IN  IF node.type \in {"INPUT", "CLOCK"} \/ isSequential(node.type)
        THEN next(acc)
        ELSE IF node.type = "OUTPUT"
        THEN next(setOutput(ReadHandle(outs, tMap, eMap, node.id, "input-0")))
        ELSE IF node.type = "IC_CUSTOM"
        THEN LET k == FindIC(icLibrary, node.icId)
             IN  IF k # 0
                 THEN LET r == EvaluateIC(node, icLibrary[k], outs, tMap, eMap,
                                          internalState, icLibrary)
                      IN  next([nodeOutputs |->
                                    Put(outs, node.id, r.outputs @@ outs[node.id]),
                                temp |-> Put(acc.temp, node.id, r.tempNextState),
                                scratch |-> acc.scratch \cup r.scratch])
                 ELSE next(setOutput(FALSE))
        ELSE next(setOutput(evaluateGate(node.type,
                                GatherInputs(outs, tMap, eMap, node))))

\* Collect next state from ICs computed in step 3 (lines 303-308), without
\* the cleanup: the field stays on every node.
CollectICNextStateKeepTemp(sorted, temp) ==
    LET found == {sorted[i].id : i \in {j \in 1..Len(sorted) :
                     /\ sorted[j].type = "IC_CUSTOM"
                     /\ sorted[j].id \in DOMAIN temp}}
    IN  [nextState |-> [id \in found |-> Sub(temp[id])],
         temp |-> temp]

\* Collect next state from ICs computed in step 3 (lines 303-308): every
\* IC_CUSTOM node of `sorted` with a truthy _tempNextState (an object is
\* always truthy) hands it to nextState and has the field deleted.
CollectICNextState(sorted, temp) ==
    LET found == {sorted[i].id : i \in {j \in 1..Len(sorted) :
                     /\ sorted[j].type = "IC_CUSTOM"
                     /\ sorted[j].id \in DOMAIN temp}}
    IN  [nextState |-> [id \in found |-> Sub(temp[id])],
         temp |-> [id \in (DOMAIN temp) \ found |-> temp[id]]]

\* Step 4 with each register's new bit written back to its outputs before
\* the next register is looked at.
RECURSIVE SequentialNextStateRipple(_, _, _, _, _, _, _, _)
SequentialNextStateRipple(nodes, i, outputs, prevNodeOutputs, tMap, eMap, internalState, nextState) ==
    IF i > Len(nodes) THEN nextState
    ELSE LET node == nodes[i]
         IN  IF isSequential(node.type)
             THEN LET inputs == GatherInputs(outputs, tMap, eMap, node)
                      prevInputs == GatherInputs(prevNodeOutputs, tMap, eMap, node)
                      currentState == StateBit(internalState, node.id)
                      new == evaluateSequentialGate(node.type, inputs,
                                                    prevInputs, currentState)
                      written == [h \in {"Q", "output", "Q_bar"} |->
                                    IF h = "Q_bar" THEN ~new ELSE new]
                  IN  SequentialNextStateRipple(nodes, i + 1,
                          Put(outputs, node.id, written), prevNodeOutputs,
                          tMap, eMap, internalState,
                          Put(nextState, node.id, Bit(new)))
             ELSE SequentialNextStateRipple(nodes, i + 1, outputs,
                          prevNodeOutputs, tMap, eMap, internalState, nextState)

\* 4. Compute Next State for Sequential Elements (lines 310-334)
RECURSIVE SequentialNextState(_, _, _, _, _, _, _, _)
SequentialNextState(nodes, i, outputs, prevNodeOutputs, tMap, eMap, internalState, nextState) ==
    IF i > Len(nodes) THEN nextState
    ELSE LET node == nodes[i]
         IN  IF isSequential(node.type)
             THEN LET inputs == GatherInputs(outputs, tMap, eMap, node)
                      prevInputs == GatherInputs(prevNodeOutputs, tMap, eMap, node)
                      currentState == StateBit(internalState, node.id)
                  IN  SequentialNextState(nodes, i + 1, outputs, prevNodeOutputs,
                          tMap, eMap, internalState,
                          Put(nextState, node.id,
                              Bit(evaluateSequentialGate(node.type, inputs,
                                      prevInputs, currentState))))
             ELSE SequentialNextState(nodes, i + 1, outputs, prevNodeOutputs,
                          tMap, eMap, internalState, nextState)

\* 5. Collect Circuit Outputs
CollectCircuitOutputs(nodes, outputs) ==
    [id \in {nodes[i].id : i \in {j \in 1..Len(nodes) : nodes[j].type = "OUTPUT"}} |->
        Get(outputs[id], "output", FALSE)]

\* EvaluationResult, plus `scratch`: the node objects (of the graph and of
\* the IC definitions) on which the call left a _tempNextState field.
evaluateCircuit(nodes, edges, inputValues, internalState, prevNodeOutputs, icLibrary) ==
    LET sorted == topologicalSort(nodes, edges)
    IN  IF sorted.isNull
        THEN [nodeOutputs |-> EmptyMap,
              circuitOutputs |-> EmptyMap,
              hasCycle |-> TRUE,
              cycleNodeIds |-> findCycleNodeIds(nodes, edges),
              nextState |-> EmptyMap,
              scratch |-> {}]
        ELSE
        LET tMap == targetMap(edges)
            eMap == edgeMap(edges)
            step3 == EvaluateSorted(sorted.sorted, 1,
                        [nodeOutputs |-> InitSources(nodes, inputValues,
                                                     internalState),
                         temp |-> EmptyMap,
                         scratch |-> {}],
                        tMap, eMap, internalState, icLibrary)
            collected == CollectICNextState(sorted.sorted, step3.temp)
            nextState == SequentialNextState(nodes, 1, step3.nodeOutputs,
                            prevNodeOutputs, tMap, eMap, internalState,
                            collected.nextState)
        IN  [nodeOutputs |-> step3.nodeOutputs,
             circuitOutputs |-> CollectCircuitOutputs(nodes, step3.nodeOutputs),
             hasCycle |-> FALSE,
             cycleNodeIds |-> <<>>,
             nextState |-> nextState,
             scratch |-> OwnScratch(DOMAIN collected.temp) \cup step3.scratch]

\* ------------------------------------------------------------------------
\* engine/ic.ts
\* ------------------------------------------------------------------------

\* A validation without the CLOCK rule
validateICSelectionAllowsClock(selectedIds, nodes) ==
    LET sel(n) == n.id \in selectedIds
        selected == SelectSeq(nodes, sel)
        isInput(n) == n.type = "INPUT"
        isOutput(n) == n.type = "OUTPUT"
    IN  IF Len(selected) = 0
        THEN [valid |-> FALSE, error |-> "No nodes selected"]
        ELSE IF Len(SelectSeq(selected, isInput)) = 0
        THEN [valid |-> FALSE, error |-> "IC must have at least one Input pin"]
        ELSE IF Len(SelectSeq(selected, isOutput)) = 0
        THEN [valid |-> FALSE, error |-> "IC must have at least one Output pin"]
        ELSE [valid |-> TRUE, error |-> ""]

\* validateICSelection: [valid, error]; error is "" when the result has none
validateICSelection(selectedIds, nodes) ==
    LET sel(n) == n.id \in selectedIds
        selected == SelectSeq(nodes, sel)
        isInput(n) == n.type = "INPUT"
        isOutput(n) == n.type = "OUTPUT"
    IN  IF Len(selected) = 0
        THEN [valid |-> FALSE, error |-> "No nodes selected"]
        ELSE IF Len(SelectSeq(selected, isInput)) = 0
        THEN [valid |-> FALSE, error |-> "IC must have at least one Input pin"]
        ELSE IF Len(SelectSeq(selected, isOutput)) = 0
        THEN [valid |-> FALSE, error |-> "IC must have at least one Output pin"]
        ELSE IF \E i \in 1..Len(selected) : selected[i].type = "CLOCK"
        THEN [valid |-> FALSE,
              error |-> "IC cannot contain Clock nodes (clocks are global)"]
        ELSE [valid |-> TRUE, error |-> ""]

\* n.label || n.id
PinOf(n) == [id |-> n.id, label |-> IF n.label # "" THEN n.label ELSE n.id]

DefaultICColor == "#8b5cf6"

\* A definition that keeps the selected nodes but none of their edges
createICDefinitionWithoutEdges(id, name, selectedIds, nodes, edges) ==
    LET sel(n) == n.id \in selectedIds
        selectedNodes == SelectSeq(nodes, sel)
        isInput(n) == n.type = "INPUT"
        isOutput(n) == n.type = "OUTPUT"
        ins == SelectSeq(selectedNodes, isInput)
        outs == SelectSeq(selectedNodes, isOutput)
    IN  [id |-> id,
         name |-> name,
         nodes |-> selectedNodes,
         edges |-> <<>>,
         inputPins |-> [i \in 1..Len(ins) |-> PinOf(ins[i])],
         outputPins |-> [i \in 1..Len(outs) |-> PinOf(outs[i])],
         color |-> DefaultICColor]

\* createICDefinition; `id` stands for the generated ic_<time>_<random>
createICDefinition(id, name, selectedIds, nodes, edges) ==
    LET sel(n) == n.id \in selectedIds
        selectedNodes == SelectSeq(nodes, sel)
        internal(e) == e.source \in selectedIds /\ e.target \in selectedIds
        isInput(n) == n.type = "INPUT"
        isOutput(n) == n.type = "OUTPUT"
        ins == SelectSeq(selectedNodes, isInput)
        outs == SelectSeq(selectedNodes, isOutput)
    IN  [id |-> id,
         name |-> name,
         nodes |-> selectedNodes,
         edges |-> SelectSeq(edges, internal),
         inputPins |-> [i \in 1..Len(ins) |-> PinOf(ins[i])],
         outputPins |-> [i \in 1..Len(outs) |-> PinOf(outs[i])],
         color |-> DefaultICColor]

\* ------------------------------------------------------------------------
\* Truth table and expressions (same file as evaluateCircuit)
\* ------------------------------------------------------------------------

\* The labels the store hands out ('A'..'Z', 'Y0', 'Y1', ...) in the order
\* String.prototype.localeCompare gives them
CollatedLabels ==
    <<"A", "B", "C", "D", "E", "F", "G", "H", "I", "J", "K", "L", "M",
      "N", "O", "P", "Q", "R", "S", "T", "U", "V", "W", "X", "Y",
      "Y0", "Y1", "Y10", "Y11", "Y12", "Y2", "Y3", "Y4", "Y5", "Y6", "Y7",
      "Y8", "Y9", "Z">>

\* a.localeCompare(b) < 0, = 0, > 0 as the difference of the two ranks
LabelRank(label) ==
    CHOOSE r \in 1..Len(CollatedLabels) : CollatedLabels[r] = label

localeCompare(a, b) == LabelRank(a) - LabelRank(b)

\* Array.prototype.sort((a, b) => a.label.localeCompare(b.label)): stable
SortByLabel(seq) ==
    LET before(i, j) ==
            \/ localeCompare(seq[i].label, seq[j].label) < 0
            \/ localeCompare(seq[i].label, seq[j].label) = 0 /\ i < j
        place(i) == Cardinality({j \in 1..Len(seq) : before(j, i)}) + 1
    IN  [p \in 1..Len(seq) |-> seq[CHOOSE i \in 1..Len(seq) : place(i) = p]]

\* Math.pow(2, n)
Pow2(n) == 2 ^ n

\* Boolean((i >> shift) & 1)
BitOf(i, shift) == (i \div Pow2(shift)) % 2 = 1

\* The rows read the first weight as the last input's
RowInputValuesLSBFirst(inputNodes, i) ==
    [id \in {inputNodes[j].id : j \in 1..Len(inputNodes)} |->
        LET j == CHOOSE x \in 1..Len(inputNodes) :
                    /\ inputNodes[x].id = id
                    /\ \A y \in x + 1..Len(inputNodes) : inputNodes[y].id # id
        IN  BitOf(i, j - 1)]

\* The inputValues of row i: bit (k - 1 - j) of i for the j-th input node
RowInputValues(inputNodes, i) ==
    [id \in {inputNodes[j].id : j \in 1..Len(inputNodes)} |->
        LET j == CHOOSE x \in 1..Len(inputNodes) :
                    /\ inputNodes[x].id = id
                    /\ \A y \in x + 1..Len(inputNodes) : inputNodes[y].id # id
        IN  BitOf(i, Len(inputNodes) - 1 - (j - 1))]

\* for (const node of list) row[node.label] = value of node, with list[j]
\* the node and values[j] its value: a later node with the same label
\* overwrites an earlier one
RowByLabel(list, values) ==
    [label \in {list[j].label : j \in 1..Len(list)} |->
        LET j == CHOOSE x \in 1..Len(list) :
                    /\ list[x].label = label
                    /\ \A y \in x + 1..Len(list) : list[y].label # label
        IN  values[j]]


TruthTableRow(nodes, edges, inputNodes, outputNodes, inputValues) ==
    LET circuitOutputs ==
            evaluateCircuit(nodes, edges, inputValues, EmptyMap, EmptyMap,
                            <<>>).circuitOutputs
    IN  [inputs |-> RowByLabel(inputNodes,
                        [j \in 1..Len(inputNodes) |->
                            inputValues[inputNodes[j].id]]),
         outputs |-> RowByLabel(outputNodes,
                         [j \in 1..Len(outputNodes) |->
                             Get(circuitOutputs, outputNodes[j].id, FALSE)])]

generateTruthTable(nodes, edges) ==
    LET isInput(n) == n.type = "INPUT"
        isOutput(n) == n.type = "OUTPUT"
        inputNodes == SortByLabel(SelectSeq(nodes, isInput))
        outputNodes == SortByLabel(SelectSeq(nodes, isOutput))
        totalCombinations == Pow2(Len(inputNodes))
    IN  [inputLabels |-> [j \in 1..Len(inputNodes) |-> inputNodes[j].label],
         outputLabels |-> [j \in 1..Len(outputNodes) |-> outputNodes[j].label],
         rows |-> [r \in 1..totalCombinations |->
                     TruthTableRow(nodes, edges, inputNodes, outputNodes,
                                   RowInputValues(inputNodes, r - 1))]]

RECURSIVE Join(_, _)
\* Array.prototype.join(separator)
Join(strings, separator) ==
    IF Len(strings) = 0 THEN ""
    ELSE IF Len(strings) = 1 THEN strings[1]
    ELSE strings[1] \o separator \o Join(Tail(strings), separator)

\* A rendering that writes the complemented literal for a true input
MintermInverted(inputLabels, row) ==
    Join([j \in 1..Len(inputLabels) |->
             IF Get(row.inputs, inputLabels[j], FALSE)
             THEN inputLabels[j] \o "'" ELSE inputLabels[j]],
         "")

\* terms.join('') of one row
Minterm(inputLabels, row) ==
    Join([j \in 1..Len(inputLabels) |->
             IF Get(row.inputs, inputLabels[j], FALSE)
             THEN inputLabels[j] ELSE inputLabels[j] \o "'"],
         "")


simplifyToSOP(truthTable, outputLabel) ==
    LET isTrue(row) == Get(row.outputs, outputLabel, FALSE)
        trueRows == SelectSeq(truthTable.rows, isTrue)
        minterms == [i \in 1..Len(trueRows) |->
                        Minterm(truthTable.inputLabels, trueRows[i])]
    IN  IF Len(minterms) = 0 THEN "0"
        ELSE IF Len(minterms) = Len(truthTable.rows) THEN "1"
        ELSE Join(minterms, " + ")

\* The glyphs of the expressions, written in ASCII: U+2026 (the cycle guard's
\* placeholder), U+00B7, U+2295 and U+2299
CyclePlaceholder == "..."
AndGlyph == " . "
OrGlyph == " + "
XorGlyph == " (+) "
XnorGlyph == " (.) "

\* incomingEdges.get(nodeId) || []
IncomingEdges(edges, nodeId) ==
    LET into(e) == e.target = nodeId
    IN  SelectSeq(edges, into)

\* incoming.find(e => edges.filter(ed => ed.target === nodeId &&
\* ed.targetHandle === `input-${i}`).some(te => te.source === e.source)):
\* <<edge>> or <<>> when find returns undefined
FindPinEdge(edges, nodeId, i) ==
    LET drivesPin(e) ==
            \E x \in 1..Len(edges) :
                /\ edges[x].target = nodeId
                /\ edges[x].targetHandle = InputHandle(i)
                /\ edges[x].source = e.source
        found == SelectSeq(IncomingEdges(edges, nodeId), drivesPin)
    IN  IF Len(found) = 0 THEN <<>> ELSE <<found[1]>>

\* The switch over the gate type
GateExpression(type, inputExprs) ==
    CASE type = "AND" -> IF Len(inputExprs) = 1 THEN inputExprs[1]
                         ELSE "(" \o Join(inputExprs, AndGlyph) \o ")"
      [] type = "OR" -> IF Len(inputExprs) = 1 THEN inputExprs[1]
                        ELSE "(" \o Join(inputExprs, OrGlyph) \o ")"
      [] type = "NOT" -> (IF Len(inputExprs) = 0 THEN "undefined"
                          ELSE inputExprs[1]) \o "'"
      [] type = "NAND" -> "(" \o Join(inputExprs, AndGlyph) \o ")'"
      [] type = "NOR" -> "(" \o Join(inputExprs, OrGlyph) \o ")'"
      [] type = "XOR" -> "(" \o Join(inputExprs, XorGlyph) \o ")"
      [] type = "XNOR" -> "(" \o Join(inputExprs, XnorGlyph) \o ")"
      [] OTHER -> "?"

RECURSIVE trace(_, _, _, _)
RECURSIVE TraceInputs(_, _, _, _, _)

\* The loop over the pins i..inputCount-1 of a gate: [exprs, visited]
TraceInputs(nodes, edges, node, i, visited) ==
    IF i >= node.inputCount THEN [exprs |-> <<>>, visited |-> visited]
    ELSE LET edge == FindPinEdge(edges, node.id, i)
             first == IF Len(edge) = 0
                      THEN [expr |-> "0", visited |-> visited]
                      ELSE trace(nodes, edges, edge[1].source, visited)
             rest == TraceInputs(nodes, edges, node, i + 1, first.visited)
         IN  [exprs |-> <<first.expr>> \o rest.exprs,
              visited |-> rest.visited]

\* trace(nodeId) with the closure's visited set passed in and out:
\* [expr, visited]
trace(nodes, edges, nodeId, visited) ==
    IF nodeId \notin NodeIdsOf(nodes) THEN [expr |-> "?", visited |-> visited]
    ELSE IF nodeId \in visited
    THEN [expr |-> CyclePlaceholder, visited |-> visited]
    ELSE
    LET node == NodeById(nodes, nodeId)
        entered == visited \cup {nodeId}
    IN  CASE node.type = "INPUT" -> [expr |-> node.label, visited |-> entered]
          [] node.type = "CLOCK" -> [expr |-> "CLK", visited |-> entered]
          [] isSequential(node.type) ->
                [expr |-> node.type \o "(Q)", visited |-> entered]
          [] node.type = "OUTPUT" ->
                LET incoming == IncomingEdges(edges, nodeId)
                IN  IF Len(incoming) = 0
                    THEN [expr |-> "0", visited |-> entered]
                    ELSE trace(nodes, edges, incoming[1].source, entered)
          [] OTHER ->
                LET traced == TraceInputs(nodes, edges, node, 0, entered)
                IN  [expr |-> GateExpression(node.type, traced.exprs),
                     visited |-> traced.visited \ {nodeId}]

extractBooleanExpression(nodes, edges, outputId) ==
    trace(nodes, edges, outputId, {}).expr

\* ------------------------------------------------------------------------
\* engine/diagnostics.ts
\* ------------------------------------------------------------------------

\* Human-readable pin labels for sequential components
PinLabel(type, i) ==
    CASE type = "D_FF" /\ i = 0 -> "D"
      [] type = "D_FF" /\ i = 1 -> "CLK"
      [] type = "JK_FF" /\ i = 0 -> "J"
      [] type = "JK_FF" /\ i = 1 -> "K"
      [] type = "JK_FF" /\ i = 2 -> "CLK"
      [] type = "T_FF" /\ i = 0 -> "T"
      [] type = "T_FF" /\ i = 1 -> "CLK"
      [] type = "SR_LATCH" /\ i = 0 -> "S"
      [] type = "SR_LATCH" /\ i = 1 -> "R"
      [] OTHER -> "input " \o ToString(i)

\* incoming.some(e => e.targetHandle === handleId)
PinHasSource(incoming, handleId) ==
    \E x \in 1..Len(incoming) : incoming[x].targetHandle = handleId

\* 1. Unconnected Input: the issues of pins i..inputCount-1
RECURSIVE UnconnectedInputs(_, _, _)
UnconnectedInputs(node, incoming, i) ==
    IF i >= node.inputCount THEN <<>>
    ELSE LET handleId == InputHandle(i)
             pinLabel == PinLabel(node.type, i)
             isClock == pinLabel = "CLK"
             issue == [severity |-> "warning",
                       code |-> IF isClock THEN "MISSING_CLOCK"
                                ELSE "UNCONNECTED_INPUT",
                       message |->
                          IF isClock
                          THEN node.label \o ": Clock pin (CLK) is not connected"
                          ELSE node.label \o ": Pin \"" \o pinLabel
                                   \o "\" is not connected",
                       nodeId |-> node.id,
                       handleId |-> handleId]
         IN  (IF PinHasSource(incoming, handleId) THEN <<>> ELSE <<issue>>)
             \o UnconnectedInputs(node, incoming, i + 1)

RECURSIVE MultipleDrivers(_, _, _)

\* 3. Multiple Drivers: the issues of pins i..inputCount-1
MultipleDrivers(node, incoming, i) ==
    IF i >= node.inputCount THEN <<>>
    ELSE LET handleId == InputHandle(i)
             onPin(e) == e.targetHandle = handleId
             drivers == SelectSeq(incoming, onPin)
             issue == [severity |-> "error",
                       code |-> "MULTIPLE_DRIVERS",
                       message |-> node.label \o ": input " \o ToString(i)
                                       \o " has " \o ToString(Len(drivers))
                                       \o " drivers (should be 1)",
                       nodeId |-> node.id,
                       handleId |-> handleId]
         IN  (IF Len(drivers) > 1 THEN <<issue>> ELSE <<>>)
             \o MultipleDrivers(node, incoming, i + 1)

\* sourceOutputs ? (sourceOutputs[edge.sourceHandle] ?? sourceOutputs['output']
\* ?? false) : false
DriverValue(nodeOutputs, edge) ==
    IF edge.source \notin DOMAIN nodeOutputs THEN FALSE
    ELSE LET sourceOutputs == nodeOutputs[edge.source]
         IN  IF edge.sourceHandle \in DOMAIN sourceOutputs
             THEN sourceOutputs[edge.sourceHandle]
             ELSE Get(sourceOutputs, "output", FALSE)

\* 4. SR Invalid State (the message's dash is U+2014 in the source)
SRInvalid(node, incoming, nodeOutputs) ==
    LET onS(e) == e.targetHandle = InputHandle(0)
        onR(e) == e.targetHandle = InputHandle(1)
        sEdges == SelectSeq(incoming, onS)
        rEdges == SelectSeq(incoming, onR)
    IN  IF /\ node.type = "SR_LATCH"
           /\ node.id \in DOMAIN nodeOutputs
           /\ Len(sEdges) > 0
           /\ Len(rEdges) > 0
           /\ DriverValue(nodeOutputs, sEdges[1])
           /\ DriverValue(nodeOutputs, rEdges[1])
        THEN <<[severity |-> "warning",
                code |-> "SR_INVALID",
                message |-> node.label
                    \o ": Invalid state - both S and R are HIGH",
                nodeId |-> node.id]>>
        ELSE <<>>

\* The issues one iteration of the loop over the nodes pushes, in order
NodeIssues(node, edges, nodeOutputs) ==
    LET into(e) == e.target = node.id
        outOf(e) == e.source = node.id
        incoming == SelectSeq(edges, into)
        outgoing == SelectSeq(edges, outOf)
    IN  (IF node.type # "INPUT" /\ node.type # "CLOCK"
         THEN UnconnectedInputs(node, incoming, 0) ELSE <<>>)
        \o (IF node.type = "OUTPUT" /\ Len(incoming) = 0
            THEN <<[severity |-> "warning",
                    code |-> "FLOATING_OUTPUT",
                    message |-> node.label
                        \o ": Output is not connected to any source",
                    nodeId |-> node.id]>>
            ELSE <<>>)
        \o (IF node.inputCount > 0
            THEN MultipleDrivers(node, incoming, 0) ELSE <<>>)
        \o SRInvalid(node, incoming, nodeOutputs)
        \o (IF node.type \in {"INPUT", "CLOCK"} /\ Len(outgoing) = 0
            THEN <<[severity |-> "info",
                    code |-> "UNUSED_SOURCE",
                    message |-> node.label \o ": Not connected to any gate",
                    nodeId |-> node.id]>>
            ELSE <<>>)

RECURSIVE PushedIssues(_, _, _, _)
\* The issues pushed for nodes[from..], without their ids
PushedIssues(nodes, edges, nodeOutputs, from) ==
    IF from > Len(nodes) THEN <<>>
    ELSE NodeIssues(nodes[from], edges, nodeOutputs)
         \o PushedIssues(nodes, edges, nodeOutputs, from + 1)

\* `issue_${++issueCounter}`
IssueId(n) == "issue_" \o ToString(n)

\* The issues in the order they were pushed
KeepPushedOrder(issues) == issues

\* issues.sort((a, b) => severityOrder[a.severity] - severityOrder[b.severity])
SortBySeverity(issues) ==
    LET isError(x) == x.severity = "error"
        isWarning(x) == x.severity = "warning"
        isInfo(x) == x.severity = "info"
    IN  SelectSeq(issues, isError) \o SelectSeq(issues, isWarning)
            \o SelectSeq(issues, isInfo)

runDiagnostics(nodes, edges, nodeOutputs) ==
    LET pushed == PushedIssues(nodes, edges, nodeOutputs, 1)
        issues == [n \in 1..Len(pushed) |->
                      [id |-> IssueId(n)] @@ pushed[n]]
    IN  SortBySeverity(issues)

\* ------------------------------------------------------------------------
\* engine/signalHistory.ts
\* ------------------------------------------------------------------------

DEFAULT_MAX_DEPTH == 256

createSignalHistory(maxDepth) ==
    [maxDepth |-> maxDepth, tickCount |-> 0, data |-> EmptyMap]

\* A buffer that never drops a sample
recordTickUntrimmed(buffer, nodeOutputs) ==
    LET newData ==
            [nodeId \in (DOMAIN buffer.data) \cup (DOMAIN nodeOutputs) |->
                LET old == Get(buffer.data, nodeId, EmptyMap)
                    outputs == Get(nodeOutputs, nodeId, EmptyMap)
                IN  [handleId \in (DOMAIN old) \cup (DOMAIN outputs) |->
                        IF handleId \in DOMAIN outputs
                        THEN Append(Get(old, handleId, <<>>),
                                    outputs[handleId])
                        ELSE old[handleId]]]
    IN  [maxDepth |-> buffer.maxDepth,
         tickCount |-> buffer.tickCount + 1,
         data |-> newData]

\* A buffer that stops taking samples once a series is full
recordTickKeepsOldest(buffer, nodeOutputs) ==
    LET trim(arr) ==
            IF Len(arr) > buffer.maxDepth
            THEN SubSeq(arr, 1, buffer.maxDepth)
            ELSE arr
        newData ==
            [nodeId \in (DOMAIN buffer.data) \cup (DOMAIN nodeOutputs) |->
                LET old == Get(buffer.data, nodeId, EmptyMap)
                    outputs == Get(nodeOutputs, nodeId, EmptyMap)
                IN  [handleId \in (DOMAIN old) \cup (DOMAIN outputs) |->
                        IF handleId \in DOMAIN outputs
                        THEN trim(Append(Get(old, handleId, <<>>),
                                         outputs[handleId]))
                        ELSE old[handleId]]]
    IN  [maxDepth |-> buffer.maxDepth,
         tickCount |-> buffer.tickCount + 1,
         data |-> newData]

\* Appends one sample per handle of nodeOutputs; handles without a sample in
\* this tick keep their array.
recordTick(buffer, nodeOutputs) ==
    LET trim(arr) ==
            IF Len(arr) > buffer.maxDepth
            THEN SubSeq(arr, Len(arr) - buffer.maxDepth + 1, Len(arr))
            ELSE arr
        newData ==
            [nodeId \in (DOMAIN buffer.data) \cup (DOMAIN nodeOutputs) |->
                LET old == Get(buffer.data, nodeId, EmptyMap)
                    outputs == Get(nodeOutputs, nodeId, EmptyMap)
                IN  [handleId \in (DOMAIN old) \cup (DOMAIN outputs) |->
                        IF handleId \in DOMAIN outputs
                        THEN trim(Append(Get(old, handleId, <<>>),
                                         outputs[handleId]))
                        ELSE old[handleId]]]
    IN  [maxDepth |-> buffer.maxDepth,
         tickCount |-> buffer.tickCount + 1,
         data |-> newData]

\* ------------------------------------------------------------------------
\* store/circuitStore.ts: the handlers as functions of the store state `s`
\* (get() reads s, set() yields the updated record).  Node positions and the
\* random edge ids are not part of s: no handler below reads them.
\* ------------------------------------------------------------------------

MAX_HISTORY == 50
MAX_TRUTH_TABLE_INPUTS == 10
WARN_TRUTH_TABLE_INPUTS == 8

\* truthTable: null
NullTable == [isNull |-> TRUE]

\* inputCountWarning: null
NoWarning == ""

InputLabels ==
    <<"A", "B", "C", "D", "E", "F", "G", "H", "I", "J", "K", "L", "M",
      "N", "O", "P", "Q", "R", "S", "T", "U", "V", "W", "X", "Y", "Z">>

\* `node_${n}`
NodeIdOf(n) == "node_" \o ToString(n)

\* `Y${n}`
OutputLabelOf(n) == "Y" \o ToString(n)

\* The React Flow component a gate type is drawn with
ComponentOf(type) ==
    CASE type = "INPUT" -> "inputNode"
      [] type = "OUTPUT" -> "outputNode"
      [] type = "CLOCK" -> "clockNode"
      [] type \in {"D_FF", "JK_FF", "T_FF", "SR_LATCH"} -> "sequentialNode"
      [] OTHER -> "gateNode"

StoreNode(id, gateType, label) ==
    [id |-> id,
     type |-> ComponentOf(gateType),
     data |-> [gateType |-> gateType, label |-> label,
               inputCount |-> GATE_INPUT_COUNTS[gateType]],
     selected |-> FALSE]

GreyStroke == "#64748b"
GreenStroke == "#22c55e"
RedStroke == "#ef4444"

EdgeStyle(stroke, wide) ==
    [stroke |-> stroke, strokeWidth |-> IF wide THEN 3 ELSE 2]

\* A handle id of null / undefined
NoHandle == ""

StoreEdge(source, sourceHandle, target, targetHandle, animated, style) ==
    [source |-> source, sourceHandle |-> sourceHandle,
     target |-> target, targetHandle |-> targetHandle,
     animated |-> animated, style |-> style]

\* nodes.map(n => ({id, type: n.data.gateType, label, inputCount})): the
\* engine node has no data field, so no icId
EngineNodes(nodes) ==
    [i \in 1..Len(nodes) |->
        Node(nodes[i].id, nodes[i].data.gateType, nodes[i].data.label,
             nodes[i].data.inputCount, NoIcId)]

\* sourceHandle || 'output', targetHandle || 'input-0'
EngineEdges(edges) ==
    [i \in 1..Len(edges) |->
        Edge(edges[i].source,
             IF edges[i].sourceHandle = NoHandle
             THEN "output" ELSE edges[i].sourceHandle,
             edges[i].target,
             IF edges[i].targetHandle = NoHandle
             THEN InputHandle(0) ELSE edges[i].targetHandle)]

\* An override that yields to a value stored for the CLOCK node
EffectiveInputValuesKeepStored(engineNodes, inputValues, clock) ==
    LET clockIds == {engineNodes[i].id :
                        i \in {j \in 1..Len(engineNodes) :
                                  engineNodes[j].type = "CLOCK"}}
    IN  [id \in (DOMAIN inputValues) \cup clockIds |->
            IF id \in DOMAIN inputValues THEN inputValues[id] ELSE clock]

\* effectiveInputValues: every CLOCK node reads the given clock level
EffectiveInputValues(engineNodes, inputValues, clock) ==
    LET clockIds == {engineNodes[i].id :
                        i \in {j \in 1..Len(engineNodes) :
                                  engineNodes[j].type = "CLOCK"}}
    IN  [id \in (DOMAIN inputValues) \cup clockIds |->
            IF id \in clockIds THEN clock ELSE inputValues[id]]

\* setTimeout(callback, 0)
Defer(s, callback) == [s EXCEPT !.timers = Append(@, callback)]

\* A pushHistory() that records a snapshot during an undo or redo as well
pushHistoryWhileRestoring(s) ==
    LET snapshot == [nodes |-> s.nodes,
                     edges |-> s.edges,
                     inputValues |-> s.inputValues,
                     internalState |-> s.internalState,
                     prevNodeOutputs |-> s.prevNodeOutputs]
        newHistory == Append(SubSeq(s.history, 1, s.historyIndex + 1),
                             snapshot)
        kept == IF Len(newHistory) > MAX_HISTORY
                THEN Tail(newHistory) ELSE newHistory
    IN  [s EXCEPT !.history = kept, !.historyIndex = Len(kept) - 1]

\* pushHistory without the MAX_HISTORY cap
pushHistoryUncapped(s) ==
    IF s.isUndoRedoing THEN s
    ELSE
    LET snapshot == [nodes |-> s.nodes,
                     edges |-> s.edges,
                     inputValues |-> s.inputValues,
                     internalState |-> s.internalState,
                     prevNodeOutputs |-> s.prevNodeOutputs]
        newHistory == Append(SubSeq(s.history, 1, s.historyIndex + 1),
                             snapshot)
    IN  [s EXCEPT !.history = newHistory,
                  !.historyIndex = Len(newHistory) - 1]

pushHistory(s) ==
    IF s.isUndoRedoing THEN s
    ELSE
    LET snapshot == [nodes |-> s.nodes,
                     edges |-> s.edges,
                     inputValues |-> s.inputValues,
                     internalState |-> s.internalState,
                     prevNodeOutputs |-> s.prevNodeOutputs]
        newHistory == Append(SubSeq(s.history, 1, s.historyIndex + 1),
                             snapshot)
        kept == IF Len(newHistory) > MAX_HISTORY
                THEN Tail(newHistory) ELSE newHistory
    IN  [s EXCEPT !.history = kept, !.historyIndex = Len(kept) - 1]

\* Edge colours of the cycle branch
CycleEdges(edges, cycleNodeIds) ==
    [i \in 1..Len(edges) |->
        LET inCycle == \/ edges[i].source \in SeqToSet(cycleNodeIds)
                       \/ edges[i].target \in SeqToSet(cycleNodeIds)
        IN  [edges[i] EXCEPT
                !.style = EdgeStyle(IF inCycle THEN RedStroke ELSE GreyStroke,
                                    inCycle),
                !.animated = inCycle]]

\* Edge colours from the source node's output
LitEdges(edges, nodeOutputs) ==
    [i \in 1..Len(edges) |->
        LET val == getPrimaryOutput(nodeOutputs, edges[i].source,
                        IF edges[i].sourceHandle = NoHandle
                        THEN "output" ELSE edges[i].sourceHandle)
        IN  [edges[i] EXCEPT
                !.style = EdgeStyle(IF val THEN GreenStroke ELSE GreyStroke,
                                    val),
                !.animated = val]]

EvaluateStore(s, clock) ==
    LET engineNodes == EngineNodes(s.nodes)
    IN  evaluateCircuit(engineNodes, EngineEdges(s.edges),
            EffectiveInputValues(engineNodes, s.inputValues, clock),
            s.internalState, s.prevNodeOutputs, s.icLibrary)

\* Performance guard: the warning for the number of INPUT nodes (the dash of
\* the second message is U+2014 in the source)
InputCountWarning(inputCount) ==
    IF inputCount > MAX_TRUTH_TABLE_INPUTS
    THEN "Too many inputs (" \o ToString(inputCount)
         \o "). Truth table generation disabled for >10 inputs to prevent performance issues."
    ELSE IF inputCount > WARN_TRUTH_TABLE_INPUTS
    THEN ToString(inputCount) \o " inputs detected - truth table has "
         \o ToString(Pow2(inputCount)) \o " rows. Analysis may be slow."
    ELSE NoWarning

\* A guard that gives up the table where the warning starts
TableWantedBelowWarning(inputCount, outputCount) ==
    inputCount > 0 /\ outputCount > 0 /\ inputCount <= WARN_TRUTH_TABLE_INPUTS

\* inputCount > 0 && outputEngineNodes.length > 0 && inputCount <= MAX_...
TableWanted(inputCount, outputCount) ==
    inputCount > 0 /\ outputCount > 0 /\ inputCount <= MAX_TRUTH_TABLE_INPUTS

\* truthTable, booleanExpressions and inputCountWarning of the acyclic branch
Analysis(engineNodes, engineEdges) ==
    LET isInput(n) == n.type = "INPUT"
        isOutput(n) == n.type = "OUTPUT"
        outputEngineNodes == SelectSeq(engineNodes, isOutput)
        inputCount == Len(SelectSeq(engineNodes, isInput))
        wanted == TableWanted(inputCount, Len(outputEngineNodes))
        expressions ==
            [j \in 1..Len(outputEngineNodes) |->
                extractBooleanExpression(engineNodes, engineEdges,
                                         outputEngineNodes[j].id)]
    IN  [inputCountWarning |-> InputCountWarning(inputCount),
         truthTable |-> IF wanted
                        THEN generateTruthTable(engineNodes, engineEdges)
                        ELSE NullTable,
         booleanExpressions |-> IF wanted
                                THEN RowByLabel(outputEngineNodes, expressions)
                                ELSE EmptyMap]

\* simplifiedExpressions[output.label] = simplifyToSOP(truthTable, label)
SimplifiedExpressions(truthTable, engineNodes) ==
    LET isOutput(n) == n.type = "OUTPUT"
        outputEngineNodes == SelectSeq(engineNodes, isOutput)
    IN  IF truthTable = NullTable THEN EmptyMap
        ELSE RowByLabel(outputEngineNodes,
                        [j \in 1..Len(outputEngineNodes) |->
                            simplifyToSOP(truthTable,
                                          outputEngineNodes[j].label)])

\* The derived fields of the acyclic branch's set()
SetAnalysis(s, analysis, issues) ==
    [s EXCEPT !.truthTable = analysis.truthTable,
              !.booleanExpressions = analysis.booleanExpressions,
              !.simplifiedExpressions =
                  SimplifiedExpressions(analysis.truthTable,
                                        EngineNodes(s.nodes)),
              !.inputCountWarning = analysis.inputCountWarning,
              !.issues = issues]

\* The set() of evaluate(), given the result of evaluateCircuit: the cycle
\* branch, or the outputs, the edge colours and the derived fields;
\* nextState is not used
SetEvaluation(s, result) ==
    IF result.hasCycle
    THEN [s EXCEPT !.hasCycle = TRUE,
                   !.cycleNodeIds = result.cycleNodeIds,
                   !.nodeOutputs = EmptyMap,
                   !.truthTable = NullTable,
                   !.booleanExpressions = EmptyMap,
                   !.simplifiedExpressions = EmptyMap,
                   !.edges = CycleEdges(s.edges, result.cycleNodeIds)]
    ELSE SetAnalysis(
            [s EXCEPT !.edges = LitEdges(s.edges, result.nodeOutputs),
                      !.nodeOutputs = result.nodeOutputs,
                      !.hasCycle = FALSE,
                      !.cycleNodeIds = <<>>],
            Analysis(EngineNodes(s.nodes), EngineEdges(s.edges)),
            runDiagnostics(EngineNodes(s.nodes), EngineEdges(s.edges),
                           result.nodeOutputs))

\* A set() that also commits the next register state
SetEvaluationAndState(s, result) ==
    [SetEvaluation(s, result) EXCEPT !.internalState = result.nextState]

\* An evaluate() that commits the next register state it computed
evaluateAdvancesState(s) ==
    SetEvaluationAndState(s, EvaluateStore(s, s.clockState))

evaluate(s) == SetEvaluation(s, EvaluateStore(s, s.clockState))

\* 4. Commit state and re-evaluate, unless the result has a cycle
CommitTick(s, nextClockState, result) ==
    IF result.hasCycle THEN s
    ELSE evaluate(
            [s EXCEPT !.clockState = nextClockState,
                      !.internalState = result.nextState,
                      !.prevNodeOutputs = result.nodeOutputs,
                      !.signalHistory =
                          IF s.recordingEnabled
                          THEN recordTick(@, result.nodeOutputs)
                          ELSE @])

tick(s) == CommitTick(s, ~s.clockState, EvaluateStore(s, ~s.clockState))

\* newInputValues[nodeId] = !newInputValues[nodeId]  (!undefined is true)
toggleInput(s, nodeId) ==
    LET pushed == pushHistory(s)
    IN  Defer([pushed EXCEPT !.inputValues =
                    Put(@, nodeId, ~Get(@, nodeId, FALSE))],
              "evaluate")

addGateNode(s, type) ==
    LET pushed == pushHistory(s)
        id == NodeIdOf(pushed.nodeIdCounter + 1)
        label == CASE type = "INPUT" ->
                        InputLabels[(pushed.inputLabelCounter % Len(InputLabels)) + 1]
                   [] type = "OUTPUT" -> OutputLabelOf(pushed.outputLabelCounter)
                   [] OTHER -> type
    IN  Defer([pushed EXCEPT
                  !.nodeIdCounter = @ + 1,
                  !.inputLabelCounter = IF type = "INPUT" THEN @ + 1 ELSE @,
                  !.outputLabelCounter = IF type = "OUTPUT" THEN @ + 1 ELSE @,
                  !.nodes = Append(@, StoreNode(id, type, label)),
                  !.inputValues = IF type = "INPUT" THEN Put(@, id, FALSE) ELSE @],
              "evaluate")

\* @xyflow/react addEdge: the edge is appended unless an edge with the same
\* source, target and handles is already there
connectionExists(edge, edges) ==
    \E i \in 1..Len(edges) :
        /\ edges[i].source = edge.source
        /\ edges[i].target = edge.target
        /\ edges[i].sourceHandle = edge.sourceHandle
        /\ edges[i].targetHandle = edge.targetHandle

addEdge(edge, edges) ==
    IF edge.source = "" \/ edge.target = "" THEN edges
    ELSE IF connectionExists(edge, edges) THEN edges
    ELSE Append(edges, edge)

onConnect(s, connection) ==
    LET pushed == pushHistory(s)
    IN  Defer([pushed EXCEPT !.edges =
                    addEdge(StoreEdge(connection.source, connection.sourceHandle,
                                      connection.target, connection.targetHandle,
                                      TRUE, EdgeStyle(GreyStroke, FALSE)),
                            @)],
              "evaluate")

\* @xyflow/react applyEdgeChanges for changes of type 'remove': `removed`
\* holds the positions of the edges the changes name
applyEdgeChanges(removed, edges) ==
    LET kept == {i \in 1..Len(edges) : i \notin removed}
        nth(k) == CHOOSE i \in kept : Cardinality({j \in kept : j <= i}) = k
    IN  [k \in 1..Cardinality(kept) |-> edges[nth(k)]]

\* The snapshot is pushed after the edges were replaced
onEdgesChange(s, removed) ==
    LET newEdges == applyEdgeChanges(removed, s.edges)
        removal == Len(newEdges) < Len(s.edges)
        replaced == [s EXCEPT !.edges = newEdges]
    IN  Defer(IF removal THEN pushHistory(replaced) ELSE replaced, "evaluate")

\* The largest number looked for in a node id or an output label
MaxNodeNumber == 12

\* n.id.match(/^node_(\d+)$/): the number, 0 when the id has another form
NodeNumberOf(id) ==
    LET S == {n \in 0..MaxNodeNumber : NodeIdOf(n) = id}
    IN  IF S = {} THEN 0 ELSE CHOOSE n \in S : TRUE

\* 'ABC...Z'.indexOf(label)
InputLabelIndex(label) ==
    LET S == {i \in 1..Len(InputLabels) : InputLabels[i] = label}
    IN  IF S = {} THEN -1 ELSE (CHOOSE i \in S : TRUE) - 1

\* label.match(/^Y(\d+)$/): the number, -1 when the label has another form
OutputLabelNumber(label) ==
    LET S == {n \in 0..MaxNodeNumber : OutputLabelOf(n) = label}
    IN  IF S = {} THEN -1 ELSE CHOOSE n \in S : TRUE

syncCounters(s, nodes) ==
    LET ids == {NodeNumberOf(nodes[i].id) : i \in 1..Len(nodes)}
        ins == {InputLabelIndex(nodes[i].data.label) :
                   i \in {j \in 1..Len(nodes) :
                             /\ nodes[j].data.gateType = "INPUT"
                             /\ nodes[j].data.label # ""}}
        outs == {OutputLabelNumber(nodes[i].data.label) :
                    i \in {j \in 1..Len(nodes) :
                              /\ nodes[j].data.gateType = "OUTPUT"
                              /\ nodes[j].data.label # ""}}
    IN  [s EXCEPT !.nodeIdCounter = MaxOf(ids \cup {0}),
                  !.inputLabelCounter = MaxOf(ins \cup {-1}) + 1,
                  !.outputLabelCounter = MaxOf(outs \cup {-1}) + 1]

\* A node and an edge as saveCircuit writes them (and loadCircuit reads them)
FileNode(id, gateType, label) ==
    [id |-> id,
     type |-> ComponentOf(gateType),
     data |-> [gateType |-> gateType, label |-> label,
               inputCount |-> GATE_INPUT_COUNTS[gateType]]]

FileEdge(source, sourceHandle, target, targetHandle) ==
    [source |-> source, sourceHandle |-> sourceHandle,
     target |-> target, targetHandle |-> targetHandle]

\* `data` is the parsed file: nodes, edges and inputValues
loadCircuit(s, data) ==
    LET restoredNodes == [i \in 1..Len(data.nodes) |->
                            [id |-> data.nodes[i].id,
                             type |-> data.nodes[i].type,
                             data |-> data.nodes[i].data,
                             selected |-> FALSE]]
        restoredEdges == [i \in 1..Len(data.edges) |->
                            StoreEdge(data.edges[i].source,
                                      data.edges[i].sourceHandle,
                                      data.edges[i].target,
                                      data.edges[i].targetHandle,
                                      FALSE, EdgeStyle(GreyStroke, FALSE))]
        synced == syncCounters(s, restoredNodes)
    IN  Defer([synced EXCEPT !.nodes = restoredNodes,
                             !.edges = restoredEdges,
                             !.inputValues = data.inputValues,
                             !.internalState = EmptyMap,
                             !.nodeOutputs = EmptyMap,
                             !.prevNodeOutputs = EmptyMap,
                             !.clockState = FALSE,
                             !.truthTable = NullTable,
                             !.booleanExpressions = EmptyMap,
                             !.simplifiedExpressions = EmptyMap,
                             !.hasCycle = FALSE,
                             !.cycleNodeIds = <<>>,
                             !.inputCountWarning = NoWarning,
                             !.history = <<>>,
                             !.historyIndex = -1],
              "loaded")

\* The callback loadCircuit defers: pushHistory(); evaluate()
loadedCallback(s) == evaluate(pushHistory(s))

\* @xyflow/react applyNodeChanges for changes of type 'select' and 'remove';
\* a change is [type, id, selected]
applyNodeChanges(changes, nodes) ==
    LET removedIds == {c.id : c \in {d \in changes : d.type = "remove"}}
        kept(n) == n.id \notin removedIds
        selection(n) == {c.selected : c \in {d \in changes :
                                        d.type = "select" /\ d.id = n.id}}
        remaining == SelectSeq(nodes, kept)
    IN  [i \in 1..Len(remaining) |->
            IF selection(remaining[i]) = {} THEN remaining[i]
            ELSE [remaining[i] EXCEPT
                    !.selected = CHOOSE b \in selection(remaining[i]) : TRUE]]

\* Only a change that adds or removes a node schedules an evaluation
onNodesChange(s, changes) ==
    LET topologyChanged == \E c \in changes : c.type \in {"remove", "add"}
        applied == [s EXCEPT !.nodes = applyNodeChanges(changes, @)]
    IN  IF topologyChanged THEN Defer(applied, "evaluate") ELSE applied

\* The engine nodes createIC validates and packages: label || n.id,
\* inputCount || 0, and no data field
ICEngineNodes(nodes) ==
    [i \in 1..Len(nodes) |->
        Node(nodes[i].id, nodes[i].data.gateType,
             IF nodes[i].data.label = "" THEN nodes[i].id ELSE nodes[i].data.label,
             nodes[i].data.inputCount, NoIcId)]

\* createIC(name): the store after the call and the value it returns; `id`
\* stands for the id createICDefinition generates
createIC(s, name, id) ==
    LET selectedIds == {s.nodes[i].id : i \in {j \in 1..Len(s.nodes) :
                                                  s.nodes[j].selected}}
        engineNodes == ICEngineNodes(s.nodes)
        validation == validateICSelection(selectedIds, engineNodes)
    IN  IF ~validation.valid
        THEN [store |-> s,
              result |-> [success |-> FALSE, error |-> validation.error]]
        ELSE [store |-> [s EXCEPT !.icLibrary =
                            Append(@, createICDefinition(id, name, selectedIds,
                                          engineNodes, EngineEdges(s.edges)))],
              result |-> [success |-> TRUE, error |-> ""]]

\* addICNode(icId, position): nothing without the definition; else the
\* instance is appended after pushHistory() and evaluate() runs at once
addICNode(s, icId) ==
    LET k == FindIC(s.icLibrary, icId)
        ic == s.icLibrary[k]
        newNode == [id |-> NodeIdOf(s.nodeIdCounter + 1),
                    type |-> "icNode",
                    data |-> [gateType |-> "IC_CUSTOM",
                              label |-> ic.name,
                              icId |-> ic.id,
                              inputPins |-> ic.inputPins,
                              outputPins |-> ic.outputPins,
                              color |-> ic.color,
                              inputCount |-> Len(ic.inputPins),
                              outputValues |-> EmptyMap],
                    selected |-> FALSE]
        pushed == pushHistory([s EXCEPT !.nodeIdCounter = @ + 1])
    IN  IF k = 0 THEN s
        ELSE evaluate([pushed EXCEPT !.nodes = Append(@, newNode)])

canUndo(s) == s.historyIndex > 0

canRedo(s) == s.historyIndex < Len(s.history) - 1

\* The set() of undo() and redo() for the snapshot at (0-based) `index`,
\* syncCounters(snapshot.nodes), and the deferred callback
Restore(s, index) ==
    LET snapshot == s.history[index + 1]
    IN  Defer(syncCounters([s EXCEPT !.isUndoRedoing = TRUE,
                                     !.nodes = snapshot.nodes,
                                     !.edges = snapshot.edges,
                                     !.inputValues = snapshot.inputValues,
                                     !.internalState = snapshot.internalState,
                                     !.prevNodeOutputs = snapshot.prevNodeOutputs,
                                     !.historyIndex = index],
                           snapshot.nodes),
              "restored")

undo(s) ==
    IF s.historyIndex <= 0 THEN s
    ELSE Restore(s, s.historyIndex - 1)

redo(s) ==
    IF s.historyIndex >= Len(s.history) - 1 THEN s
    ELSE Restore(s, s.historyIndex + 1)

\* The callback undo() and redo() defer: set({isUndoRedoing: false});
\* evaluate()
restoredCallback(s) == evaluate([s EXCEPT !.isUndoRedoing = FALSE])

\* clearCircuit (clockEnabled is not part of the modelled state)
clearCircuit(s) ==
    [pushHistory(s) EXCEPT !.nodeIdCounter = 0,
                           !.inputLabelCounter = 0,
                           !.outputLabelCounter = 0,
                           !.nodes = <<>>,
                           !.edges = <<>>,
                           !.inputValues = EmptyMap,
                           !.internalState = EmptyMap,
                           !.nodeOutputs = EmptyMap,
                           !.prevNodeOutputs = EmptyMap,
                           !.clockState = FALSE,
                           !.truthTable = NullTable,
                           !.booleanExpressions = EmptyMap,
                           !.simplifiedExpressions = EmptyMap,
                           !.hasCycle = FALSE,
                           !.cycleNodeIds = <<>>,
                           !.inputCountWarning = NoWarning,
                           !.signalHistory = createSignalHistory(DEFAULT_MAX_DEPTH),
                           !.issues = <<>>]

\* A map without the given keys
Without(map, keys) == [k \in (DOMAIN map) \ keys |-> map[k]]

\* deleteSelected (probes are not part of the modelled state; edges are
\* never selected in it)
deleteSelected(s) ==
    LET pushed == pushHistory(s)
        selectedNodeIds == {pushed.nodes[i].id :
                               i \in {j \in 1..Len(pushed.nodes) :
                                         pushed.nodes[j].selected}}
        unselected(n) == ~n.selected
        free(e) == e.source \notin selectedNodeIds
                   /\ e.target \notin selectedNodeIds
    IN  Defer([pushed EXCEPT
                  !.nodes = SelectSeq(@, unselected),
                  !.edges = SelectSeq(@, free),
                  !.inputValues = Without(@, selectedNodeIds),
                  !.internalState = Without(@, selectedNodeIds)],
              "evaluate")

\* The loop of duplicateSelected over the selected nodes: acc holds the
\* counters, idMap, newNodes, newInputValues and newInternalState
RECURSIVE DuplicateNodes(_, _, _, _)
DuplicateNodes(selectedNodes, i, current, acc) ==
    IF i > Len(selectedNodes) THEN acc
    ELSE
    LET node == selectedNodes[i]
        newId == NodeIdOf(acc.nodeIdCounter + 1)
        gateType == node.data.gateType
        label == CASE gateType = "INPUT" ->
                        InputLabels[(acc.inputLabelCounter % Len(InputLabels)) + 1]
                   [] gateType = "OUTPUT" -> OutputLabelOf(acc.outputLabelCounter)
                   [] OTHER -> node.data.label
    IN  DuplicateNodes(selectedNodes, i + 1, current,
            [nodeIdCounter |-> acc.nodeIdCounter + 1,
             inputLabelCounter |-> IF gateType = "INPUT"
                                   THEN acc.inputLabelCounter + 1
                                   ELSE acc.inputLabelCounter,
             outputLabelCounter |-> IF gateType = "OUTPUT"
                                    THEN acc.outputLabelCounter + 1
                                    ELSE acc.outputLabelCounter,
             idMap |-> Put(acc.idMap, node.id, newId),
             newNodes |-> Append(acc.newNodes,
                             [node EXCEPT !.id = newId,
                                          !.selected = FALSE,
                                          !.data.label = label]),
             inputValues |-> IF gateType = "INPUT"
                             THEN Put(acc.inputValues, newId,
                                      Get(current.inputValues, node.id, FALSE))
                             ELSE acc.inputValues,
             internalState |-> IF node.id \in DOMAIN current.internalState
                               THEN Put(acc.internalState, newId,
                                        current.internalState[node.id])
                               ELSE acc.internalState])

\* duplicateSelected: the snapshot is pushed before the selection is looked
\* at, so a call without a selection records a snapshot and changes nothing
duplicateSelected(s) ==
    LET pushed == pushHistory(s)
        isSelected(n) == n.selected
        selectedNodes == SelectSeq(pushed.nodes, isSelected)
        done == DuplicateNodes(selectedNodes, 1, pushed,
                    [nodeIdCounter |-> pushed.nodeIdCounter,
                     inputLabelCounter |-> pushed.inputLabelCounter,
                     outputLabelCounter |-> pushed.outputLabelCounter,
                     idMap |-> EmptyMap,
                     newNodes |-> <<>>,
                     inputValues |-> pushed.inputValues,
                     internalState |-> pushed.internalState])
        copied(e) == e.source \in DOMAIN done.idMap
                     /\ e.target \in DOMAIN done.idMap
        originals == SelectSeq(pushed.edges, copied)
        newEdges == [i \in 1..Len(originals) |->
                        [originals[i] EXCEPT
                            !.source = done.idMap[originals[i].source],
                            !.target = done.idMap[originals[i].target],
                            !.animated = FALSE]]
    IN  IF selectedNodes = <<>> THEN pushed
        ELSE Defer([pushed EXCEPT
                       !.nodeIdCounter = done.nodeIdCounter,
                       !.inputLabelCounter = done.inputLabelCounter,
                       !.outputLabelCounter = done.outputLabelCounter,
                       !.nodes = [i \in 1..Len(@) |->
                                     [@[i] EXCEPT !.selected = FALSE]]
                                 \o done.newNodes,
                       !.edges = @ \o newEdges,
                       !.inputValues = done.inputValues,
                       !.internalState = done.internalState],
                   "evaluate")

\* ------------------------------------------------------------------------
\* State
\* ------------------------------------------------------------------------

VARIABLES
    call,               \* the engine call under test: function name and arguments
    ret,                \* what the call returned ([done |-> FALSE] before it ran)
    nodes,              \* the store's fields, named as in CircuitState
    edges,
    inputValues,
    internalState,
    nodeOutputs,
    prevNodeOutputs,
    clockState,
    signalHistory,
    recordingEnabled,
    icLibrary,
    hasCycle,
    cycleNodeIds,
    history,
    historyIndex,
    isUndoRedoing,
    issues,
    truthTable,
    booleanExpressions,
    simplifiedExpressions,
    inputCountWarning,
    nodeIdCounter,      \* the module-level counters of circuitStore.ts
    inputLabelCounter,
    outputLabelCounter,
    timers              \* callbacks handed to setTimeout(.., 0), oldest first

storeVars ==
    <<nodes, edges, inputValues, internalState, nodeOutputs, prevNodeOutputs,
      clockState, signalHistory, recordingEnabled, icLibrary, hasCycle,
      cycleNodeIds, history, historyIndex, isUndoRedoing, issues, truthTable,
      booleanExpressions, simplifiedExpressions, inputCountWarning,
      nodeIdCounter, inputLabelCounter, outputLabelCounter, timers>>

vars ==
    <<call, ret, nodes, edges, inputValues, internalState, nodeOutputs,
      prevNodeOutputs, clockState, signalHistory, recordingEnabled, icLibrary,
      hasCycle, cycleNodeIds, history, historyIndex, isUndoRedoing, issues,
      truthTable, booleanExpressions, simplifiedExpressions, inputCountWarning,
      nodeIdCounter, inputLabelCounter, outputLabelCounter, timers>>

\* get()
Store ==
    [nodes |-> nodes, edges |-> edges, inputValues |-> inputValues,
     internalState |-> internalState, nodeOutputs |-> nodeOutputs,
     prevNodeOutputs |-> prevNodeOutputs, clockState |-> clockState,
     signalHistory |-> signalHistory, recordingEnabled |-> recordingEnabled,
     icLibrary |-> icLibrary, hasCycle |-> hasCycle,
     cycleNodeIds |-> cycleNodeIds, history |-> history,
     historyIndex |-> historyIndex, isUndoRedoing |-> isUndoRedoing,
     issues |-> issues, truthTable |-> truthTable,
     booleanExpressions |-> booleanExpressions,
     simplifiedExpressions |-> simplifiedExpressions,
     inputCountWarning |-> inputCountWarning,
     nodeIdCounter |-> nodeIdCounter, inputLabelCounter |-> inputLabelCounter,
     outputLabelCounter |-> outputLabelCounter, timers |-> timers]

\* The store after a handler returned with state s
Commit(s) ==
    /\ nodes' = s.nodes
    /\ edges' = s.edges
    /\ inputValues' = s.inputValues
    /\ internalState' = s.internalState
    /\ nodeOutputs' = s.nodeOutputs
    /\ prevNodeOutputs' = s.prevNodeOutputs
    /\ clockState' = s.clockState
    /\ signalHistory' = s.signalHistory
    /\ recordingEnabled' = s.recordingEnabled
    /\ icLibrary' = s.icLibrary
    /\ hasCycle' = s.hasCycle
    /\ cycleNodeIds' = s.cycleNodeIds
    /\ history' = s.history
    /\ historyIndex' = s.historyIndex
    /\ isUndoRedoing' = s.isUndoRedoing
    /\ issues' = s.issues
    /\ truthTable' = s.truthTable
    /\ booleanExpressions' = s.booleanExpressions
    /\ simplifiedExpressions' = s.simplifiedExpressions
    /\ inputCountWarning' = s.inputCountWarning
    /\ nodeIdCounter' = s.nodeIdCounter
    /\ inputLabelCounter' = s.inputLabelCounter
    /\ outputLabelCounter' = s.outputLabelCounter
    /\ timers' = s.timers

\* create<CircuitState>(...) and the module-level counters
StoreInit ==
    /\ nodes = <<>>
    /\ edges = <<>>
    /\ inputValues = EmptyMap
    /\ internalState = EmptyMap
    /\ nodeOutputs = EmptyMap
    /\ prevNodeOutputs = EmptyMap
    /\ clockState = FALSE
    /\ signalHistory = createSignalHistory(DEFAULT_MAX_DEPTH)
    /\ recordingEnabled = TRUE
    /\ icLibrary = <<>>
    /\ hasCycle = FALSE
    /\ cycleNodeIds = <<>>
    /\ history = <<>>
    /\ historyIndex = -1
    /\ isUndoRedoing = FALSE
    /\ issues = <<>>
    /\ truthTable = NullTable
    /\ booleanExpressions = EmptyMap
    /\ simplifiedExpressions = EmptyMap
    /\ inputCountWarning = NoWarning
    /\ nodeIdCounter = 0
    /\ inputLabelCounter = 0
    /\ outputLabelCounter = 0
    /\ timers = <<>>

NotReturned == [done |-> FALSE]
Returned(fn, value) == [done |-> TRUE, fn |-> fn, value |-> value]

\* ------------------------------------------------------------------------
\* Bounds of the explored inputs
\* ------------------------------------------------------------------------

\* longest input list handed to a gate function
MaxInputs == 4
\* most nodes / edges of a generated graph
MaxNodes == 3
MaxEdges == 3

BoolSeqs(n) == UNION {[1..k -> BOOLEAN] : k \in 0..n}

\* a tag outside GateType, as a stale or foreign file may carry
UnknownKind == "BUFFER"

\* ------------------------------------------------------------------------
\* Specification SpecGates: the pure gate functions on every input list
\* ------------------------------------------------------------------------

GateCalls ==
    {[type |-> t, inputs |-> i, prevInputs |-> p, currentState |-> c] :
        t \in GateType \cup {UnknownKind},
        i \in BoolSeqs(MaxInputs),
        p \in BoolSeqs(MaxInputs),
        c \in BOOLEAN}

GatesInit ==
    /\ call \in {c \in GateCalls : Len(c.prevInputs) = Len(c.inputs)}
    /\ ret = NotReturned
    /\ StoreInit

CallEvaluateGate ==
    /\ ~ret.done
    /\ ret' = Returned("evaluateGate", evaluateGate(call.type, call.inputs))
    /\ UNCHANGED <<call, storeVars>>

CallEvaluateSequentialGate ==
    /\ ~ret.done
    /\ ret' = Returned("evaluateSequentialGate",
                       evaluateSequentialGate(call.type, call.inputs,
                                              call.prevInputs, call.currentState))
    /\ UNCHANGED <<call, storeVars>>

GatesNext == CallEvaluateGate \/ CallEvaluateSequentialGate

SpecGates == GatesInit /\ [][GatesNext]_vars

\* ------------------------------------------------------------------------
\* Specification SpecTopology: topologicalSort and evaluateCircuit on every
\* graph of at most MaxNodes nodes and MaxEdges edges
\* ------------------------------------------------------------------------

\* a gate, a register and a source
TopoKinds == {"AND", "D_FF", "INPUT"}

NodeName(i) == "n" \o ToString(i)

MakeNodes(kinds) ==
    [i \in 1..Len(kinds) |->
        Node(NodeName(i), kinds[i], kinds[i], GATE_INPUT_COUNTS[kinds[i]], NoIcId)]

\* The pairs of P in ascending order of (source, target)
RECURSIVE SortedPairs(_)
SortedPairs(P) ==
    IF P = {} THEN <<>>
    ELSE LET least == CHOOSE p \in P : \A q \in P :
                          p[1] < q[1] \/ (p[1] = q[1] /\ p[2] <= q[2])
         IN  <<least>> \o SortedPairs(P \ {least})

\* Each edge lands on the first pin of its target that no earlier edge uses
MakeEdges(pairs) ==
    [i \in 1..Len(pairs) |->
        Edge(NodeName(pairs[i][1]), "output", NodeName(pairs[i][2]),
             InputHandle(Cardinality({j \in 1..(i - 1) : pairs[j][2] = pairs[i][2]})))]

GraphCall(kinds, P) ==
    [nodes |-> MakeNodes(kinds),
     edges |-> MakeEdges(SortedPairs(P)),
     inputValues |-> [id \in {NodeName(i) : i \in
                        {j \in 1..Len(kinds) : kinds[j] = "INPUT"}} |-> TRUE],
     internalState |-> EmptyMap,
     prevNodeOutputs |-> EmptyMap,
     icLibrary |-> <<>>]

EdgeChoices(n) ==
    {P \in SUBSET ((1..n) \X (1..n)) : Cardinality(P) <= MaxEdges}

TopologyInit ==
    /\ \E n \in 0..MaxNodes :
         \E kinds \in [1..n -> TopoKinds] :
           \E P \in EdgeChoices(n) :
             call = GraphCall(kinds, P)
    /\ ret = NotReturned
    /\ StoreInit

CallTopologicalSort ==
    /\ ~ret.done
    /\ ret' = Returned("topologicalSort", topologicalSort(call.nodes, call.edges))
    /\ UNCHANGED <<call, storeVars>>

CallEvaluateCircuit ==
    /\ ~ret.done
    /\ ret' = Returned("evaluateCircuit",
                       evaluateCircuit(call.nodes, call.edges, call.inputValues,
                                       call.internalState, call.prevNodeOutputs,
                                       call.icLibrary))
    /\ UNCHANGED <<call, storeVars>>

TopologyNext == CallTopologicalSort \/ CallEvaluateCircuit

SpecTopology == TopologyInit /\ [][TopologyNext]_vars

\* ------------------------------------------------------------------------
\* Properties of the topology resolver (checked under SpecTopology)
\* ------------------------------------------------------------------------

IsRegisterNode(gNodes, id) ==
    id \in NodeIdsOf(gNodes) /\ isSequential(NodeById(gNodes, id).type)

\* The edges of the graph between two nodes that are not registers
RegisterFreeEdges(gNodes, gEdges) ==
    {<<gEdges[i].source, gEdges[i].target>> : i \in
        {j \in 1..Len(gEdges) :
            /\ gEdges[j].source \in NodeIdsOf(gNodes)
            /\ gEdges[j].target \in NodeIdsOf(gNodes)
            /\ ~IsRegisterNode(gNodes, gEdges[j].source)
            /\ ~IsRegisterNode(gNodes, gEdges[j].target)}}

Successors(E, S) == {p[2] : p \in {q \in E : q[1] \in S}}

RECURSIVE Closure(_, _)
Closure(E, S) ==
    LET T == S \cup Successors(E, S)
    IN  IF T = S THEN S ELSE Closure(E, T)

\* The graph has a directed cycle none of whose nodes is a register
HasRegisterFreeCycle(gNodes, gEdges) ==
    LET E == RegisterFreeEdges(gNodes, gEdges)
    IN  \E id \in NodeIdsOf(gNodes) : id \in Closure(E, Successors(E, {id}))

\* The graph has a directed cycle through at least one register
HasCycleThroughRegister(gNodes, gEdges) ==
    LET E == {<<gEdges[i].source, gEdges[i].target>> : i \in 1..Len(gEdges)}
    IN  \E id \in NodeIdsOf(gNodes) :
            /\ IsRegisterNode(gNodes, id)
            /\ id \in Closure(E, Successors(E, {id}))

\* C2: evaluateCircuit reports hasCycle exactly when the graph has a directed
\* cycle none of whose nodes is a register, and then nodeOutputs,
\* circuitOutputs and nextState are empty.
C2_CycleIffRegisterFreeLoop ==
    (ret.done /\ ret.fn = "evaluateCircuit")
    => /\ ret.value.hasCycle = HasRegisterFreeCycle(call.nodes, call.edges)
       /\ ret.value.hasCycle =>
            /\ ret.value.nodeOutputs = EmptyMap
            /\ ret.value.circuitOutputs = EmptyMap
            /\ ret.value.nextState = EmptyMap

\* a loop gate -> register -> gate -> gate is evaluated, not rejected
C2_Witness ==
    /\ ret.done
    /\ ret.fn = "evaluateCircuit"
    /\ [i \in 1..Len(call.nodes) |-> call.nodes[i].type] = <<"AND", "D_FF", "AND">>
    /\ {<<call.edges[i].source, call.edges[i].target>> : i \in 1..Len(call.edges)}
         = {<<"n1", "n2">>, <<"n2", "n3">>, <<"n3", "n1">>}
    /\ HasCycleThroughRegister(call.nodes, call.edges)
    /\ ~ret.value.hasCycle

\* C3 (as claimed): when hasCycle is reported, cycleNodeIds is exactly the
\* set of nodes missing from the resolved order.
C3_CycleNodesAreTheUnresolved ==
    (ret.done /\ ret.fn = "evaluateCircuit" /\ ret.value.hasCycle)
    => SeqToSet(ret.value.cycleNodeIds) =
         NodeIdsOf(call.nodes) \
            {n.id : n \in SeqToSet(ResolvedOrder(call.nodes, call.edges))}

PositionIn(sorted, id) == CHOOSE i \in 1..Len(sorted) : sorted[i].id = id

\* C4: for a graph without a combinational cycle topologicalSort returns an
\* order that holds every node exactly once and puts the source of every
\* edge that does not start at a register before its target.
C4_OrderRespectsDependencies ==
    (/\ ret.done
     /\ ret.fn = "topologicalSort"
     /\ ~HasRegisterFreeCycle(call.nodes, call.edges))
    => /\ ~ret.value.isNull
       /\ Len(ret.value.sorted) = Len(call.nodes)
       /\ \A id \in NodeIdsOf(call.nodes) :
            Cardinality({i \in 1..Len(ret.value.sorted) :
                            ret.value.sorted[i].id = id}) = 1
       /\ \A i \in 1..Len(call.edges) :
            ~IsRegisterNode(call.nodes, call.edges[i].source)
            => PositionIn(ret.value.sorted, call.edges[i].source)
                 < PositionIn(ret.value.sorted, call.edges[i].target)

\* a gate fed by a later node of the list and by a register is sorted
C4_Witness ==
    /\ ret.done
    /\ ret.fn = "topologicalSort"
    /\ [i \in 1..Len(call.nodes) |-> call.nodes[i].type] = <<"AND", "D_FF", "INPUT">>
    /\ {<<call.edges[i].source, call.edges[i].target>> : i \in 1..Len(call.edges)}
         = {<<"n3", "n1">>, <<"n2", "n1">>, <<"n1", "n2">>}
    /\ ~ret.value.isNull
    /\ [i \in 1..3 |-> ret.value.sorted[i].id] = <<"n3", "n1", "n2">>

\* ------------------------------------------------------------------------
\* Specification SpecEngine: evaluateCircuit on named circuits, with every
\* input assignment, register state and previous-tick snapshot
\* ------------------------------------------------------------------------

\* Two D flip-flops in a row on one clock: A -> FF1 -> FF2 -> Y0, B = CLK
ShiftNodes ==
    <<Node("node_1", "INPUT", "A", 0, NoIcId),
      Node("node_2", "INPUT", "B", 0, NoIcId),
      Node("node_3", "D_FF", "D_FF", 2, NoIcId),
      Node("node_4", "D_FF", "D_FF", 2, NoIcId),
      Node("node_5", "OUTPUT", "Y0", 1, NoIcId)>>

ShiftEdges(qHandle) ==
    <<Edge("node_1", "output", "node_3", "input-0"),
      Edge("node_2", "output", "node_3", "input-1"),
      Edge("node_3", qHandle, "node_4", "input-0"),
      Edge("node_2", "output", "node_4", "input-1"),
      Edge("node_4", "output", "node_5", "input-0")>>

\* The circuit a one-bit register IC is made from: A = D, B = CLK, Y0 = Q
RegSourceNodes ==
    <<Node("node_1", "INPUT", "A", 0, NoIcId),
      Node("node_2", "INPUT", "B", 0, NoIcId),
      Node("node_3", "D_FF", "D_FF", 2, NoIcId),
      Node("node_4", "OUTPUT", "Y0", 1, NoIcId)>>

RegSourceEdges ==
    <<Edge("node_1", "output", "node_3", "input-0"),
      Edge("node_2", "output", "node_3", "input-1"),
      Edge("node_3", "output", "node_4", "input-0")>>

RegIC ==
    createICDefinition("ic_reg", "REG", {"node_1", "node_2", "node_3", "node_4"},
                       RegSourceNodes, RegSourceEdges)

\* A definition that wraps an instance of RegIC
WrapSourceNodes ==
    <<Node("node_5", "INPUT", "C", 0, NoIcId),
      Node("node_6", "INPUT", "D", 0, NoIcId),
      Node("node_7", "IC_CUSTOM", "REG", 2, "ic_reg"),
      Node("node_8", "OUTPUT", "Y1", 1, NoIcId)>>

WrapSourceEdges ==
    <<Edge("node_5", "output", "node_7", IcInHandle("node_1")),
      Edge("node_6", "output", "node_7", IcInHandle("node_2")),
      Edge("node_7", IcOutHandle("node_4"), "node_8", "input-0")>>

WrapIC ==
    createICDefinition("ic_wrap", "WRAP", {"node_5", "node_6", "node_7", "node_8"},
                       WrapSourceNodes, WrapSourceEdges)

EngineLibrary == <<RegIC, WrapIC>>

\* Two instances of RegIC and one of WrapIC on shared inputs
BoardNodes ==
    <<Node("node_9", "INPUT", "E", 0, NoIcId),
      Node("node_10", "INPUT", "F", 0, NoIcId),
      Node("node_11", "IC_CUSTOM", "REG", 2, "ic_reg"),
      Node("node_12", "IC_CUSTOM", "REG", 2, "ic_reg"),
      Node("node_13", "IC_CUSTOM", "WRAP", 2, "ic_wrap"),
      Node("node_14", "OUTPUT", "Y2", 1, NoIcId)>>

BoardEdges ==
    <<Edge("node_9", "output", "node_11", IcInHandle("node_1")),
      Edge("node_10", "output", "node_11", IcInHandle("node_2")),
      Edge("node_11", IcOutHandle("node_4"), "node_12", IcInHandle("node_1")),
      Edge("node_10", "output", "node_12", IcInHandle("node_2")),
      Edge("node_12", IcOutHandle("node_4"), "node_13", IcInHandle("node_5")),
      Edge("node_10", "output", "node_13", IcInHandle("node_6")),
      Edge("node_13", IcOutHandle("node_8"), "node_14", "input-0")>>

\* The register states a caller may hold for a circuit
ShiftStates ==
    {EmptyMap} \cup
    {[id \in {"node_3", "node_4"} |-> Bit(b[id])] :
        b \in [{"node_3", "node_4"} -> BOOLEAN]}

RegState(b) == [id \in {"node_3"} |-> Bit(b)]

BoardStates ==
    {EmptyMap} \cup
    {[id \in {"node_11", "node_12", "node_13"} |->
        IF id = "node_13"
        THEN Sub([k \in {"node_7"} |-> Sub(RegState(b[id]))])
        ELSE Sub(RegState(b[id]))] :
        b \in [{"node_11", "node_12", "node_13"} -> BOOLEAN]}

\* An instance node_22 of a definition that is not in the library (icId names
\* a deleted definition, or the node has no icId at all), read through an
\* ic-out handle by an OR gate and an OUTPUT and through `output` by a NOT
DanglingNodes(icId) ==
    <<Node("node_21", "INPUT", "G", 0, NoIcId),
      Node("node_22", "IC_CUSTOM", "GONE", 2, icId),
      Node("node_23", "OR", "OR", 2, NoIcId),
      Node("node_24", "NOT", "NOT", 1, NoIcId),
      Node("node_25", "OUTPUT", "Y3", 1, NoIcId),
      Node("node_26", "OUTPUT", "Y4", 1, NoIcId),
      Node("node_27", "OUTPUT", "Y5", 1, NoIcId)>>

DanglingEdges ==
    <<Edge("node_21", "output", "node_22", IcInHandle("node_1")),
      Edge("node_21", "output", "node_23", "input-0"),
      Edge("node_22", IcOutHandle("node_4"), "node_23", "input-1"),
      Edge("node_22", "output", "node_24", "input-0"),
      Edge("node_23", "output", "node_25", "input-0"),
      Edge("node_24", "output", "node_26", "input-0"),
      Edge("node_22", IcOutHandle("node_4"), "node_27", "input-0")>>

\* The state a caller may still hold for the instance of a deleted definition
DanglingStates ==
    {EmptyMap} \cup {[id \in {"node_22"} |-> Sub(RegState(b))] : b \in BOOLEAN}

\* A = node_31 and B = node_32 into AND node_33, read by Y6 = node_34: the
\* circuit that uses the AND gate directly
AndNodes ==
    <<Node("node_31", "INPUT", "A", 0, NoIcId),
      Node("node_32", "INPUT", "B", 0, NoIcId),
      Node("node_33", "AND", "AND", 2, NoIcId),
      Node("node_34", "OUTPUT", "Y6", 1, NoIcId)>>

AndEdges ==
    <<Edge("node_31", "output", "node_33", "input-0"),
      Edge("node_32", "output", "node_33", "input-1"),
      Edge("node_33", "output", "node_34", "input-0")>>

\* The definition made from the whole of that circuit
AndIC ==
    createICDefinition("ic_and", "AND2", {"node_31", "node_32", "node_33", "node_34"},
                       AndNodes, AndEdges)

\* A parent circuit whose two switches drive the pins of an instance of AndIC
\* and whose output reads the instance's output pin
WrappedAndNodes ==
    <<Node("node_35", "INPUT", "A", 0, NoIcId),
      Node("node_36", "INPUT", "B", 0, NoIcId),
      Node("node_37", "IC_CUSTOM", "AND2", 2, "ic_and"),
      Node("node_38", "OUTPUT", "Y7", 1, NoIcId)>>

WrappedAndEdges ==
    <<Edge("node_35", "output", "node_37", IcInHandle(AndIC.inputPins[1].id)),
      Edge("node_36", "output", "node_37", IcInHandle(AndIC.inputPins[2].id)),
      Edge("node_37", IcOutHandle(AndIC.outputPins[1].id), "node_38", "input-0")>>

EngineCircuits ==
    {[name |-> "shift", nodes |-> ShiftNodes, edges |-> ShiftEdges(h),
      icLibrary |-> <<>>, inputs |-> {"node_1", "node_2"},
      states |-> ShiftStates] : h \in {"output", "Q", "Q_bar"}}
    \cup
    {[name |-> "board", nodes |-> BoardNodes, edges |-> BoardEdges,
      icLibrary |-> EngineLibrary, inputs |-> {"node_9", "node_10"},
      states |-> BoardStates]}
    \cup
    {[name |-> "dangling", nodes |-> DanglingNodes(icId),
      edges |-> DanglingEdges, icLibrary |-> lib, inputs |-> {"node_21"},
      states |-> DanglingStates] :
        icId \in {"ic_gone", NoIcId}, lib \in {<<>>, EngineLibrary}}
    \cup
    {[name |-> "and", nodes |-> AndNodes, edges |-> AndEdges,
      icLibrary |-> <<>>, inputs |-> {"node_31", "node_32"},
      states |-> {EmptyMap}],
     [name |-> "wrapped and", nodes |-> WrappedAndNodes,
      edges |-> WrappedAndEdges, icLibrary |-> <<RegIC, AndIC>>,
      inputs |-> {"node_35", "node_36"}, states |-> {EmptyMap}]}

\* prevNodeOutputs is empty or the nodeOutputs of an earlier evaluation
EngineInit ==
    /\ \E c \in EngineCircuits :
         \E iv \in [c.inputs -> BOOLEAN] :
           \E st \in c.states :
             \E prevIv \in [c.inputs -> BOOLEAN] :
               \E hasPrev \in BOOLEAN :
                 call = [name |-> c.name,
                         nodes |-> c.nodes,
                         edges |-> c.edges,
                         inputValues |-> iv,
                         internalState |-> st,
                         prevNodeOutputs |->
                            IF hasPrev
                            THEN evaluateCircuit(c.nodes, c.edges, prevIv,
                                     EmptyMap, EmptyMap, c.icLibrary).nodeOutputs
                            ELSE EmptyMap,
                         icLibrary |-> c.icLibrary]
    /\ ret = NotReturned
    /\ StoreInit

EngineNext == CallEvaluateCircuit

SpecEngine == EngineInit /\ [][EngineNext]_vars

\* ------------------------------------------------------------------------
\* Properties of evaluateCircuit (checked under SpecEngine)
\* ------------------------------------------------------------------------

PublishedRegister(state) ==
    [h \in {"Q", "output", "Q_bar"} |-> IF h = "Q_bar" THEN ~state ELSE state]

\* C9: nextState is computed from the internalState, inputValues and
\* prevNodeOutputs handed to the call.  In the two-stage shift register the
\* registers publish the incoming state, and on a rising clock edge the
\* second stage takes what the first stage held before the call (through
\* the handle it is wired to) while the first stage takes A.
C9_NextStateFromIncomingState ==
    (ret.done /\ ret.fn = "evaluateCircuit" /\ call.name = "shift")
    => LET s1 == StateBit(call.internalState, "node_3")
           s2 == StateBit(call.internalState, "node_4")
           seen == IF call.edges[3].sourceHandle = "Q_bar" THEN ~s1 ELSE s1
           clk == call.inputValues["node_2"]
           prevClk == IF call.prevNodeOutputs = EmptyMap THEN FALSE
                      ELSE call.prevNodeOutputs["node_2"]["output"]
           rising == clk /\ ~prevClk
       IN  /\ ret.value.nodeOutputs["node_3"] = PublishedRegister(s1)
           /\ ret.value.nodeOutputs["node_4"] = PublishedRegister(s2)
           /\ ret.value.nextState =
                [id \in {"node_3", "node_4"} |->
                    IF ~rising THEN Bit(IF id = "node_3" THEN s1 ELSE s2)
                    ELSE IF id = "node_3" THEN Bit(call.inputValues["node_1"])
                    ELSE Bit(seen)]

\* both stages clocked in one call: the first goes 0 -> 1, the second takes
\* the 0 the first held
C9_Witness ==
    /\ ret.done
    /\ ret.fn = "evaluateCircuit"
    /\ call.name = "shift"
    /\ call.edges[3].sourceHandle = "Q"
    /\ call.inputValues = [id \in {"node_1", "node_2"} |-> TRUE]
    /\ call.prevNodeOutputs # EmptyMap
    /\ ~call.prevNodeOutputs["node_2"]["output"]
    /\ call.internalState =
         [id \in {"node_3", "node_4"} |-> Bit(id = "node_4")]
    /\ ret.value.nextState =
         [id \in {"node_3", "node_4"} |-> Bit(id = "node_3")]

TrueCount(inputs) == Cardinality({i \in 1..Len(inputs) : inputs[i]})

\* C6: T_FF on a rising edge gives current XOR T; JK_FF on a rising edge
\* toggles on J and K, sets on J only, resets on K only, holds on neither;
\* without a rising edge both hold the current state.
C6_ToggleAndJK ==
    (/\ ret.done
     /\ ret.fn = "evaluateSequentialGate"
     /\ call.type \in {"T_FF", "JK_FF"}
     /\ Len(call.inputs) >= GATE_INPUT_COUNTS[call.type])
    => LET clkPin == GATE_INPUT_COUNTS[call.type]
           rising == call.inputs[clkPin] /\ ~call.prevInputs[clkPin]
           cur == call.currentState
           j == call.inputs[1]
           k == call.inputs[2]
       IN  ret.value =
             IF ~rising THEN cur
             ELSE IF call.type = "T_FF" THEN (cur # call.inputs[1])
             ELSE CASE j /\ k -> ~cur
                    [] j /\ ~k -> TRUE
                    [] ~j /\ k -> FALSE
                    [] OTHER -> cur

\* a T_FF with T = 0 has seen a rising edge and kept a set bit
C6_Witness ==
    /\ ret.done
    /\ ret.fn = "evaluateSequentialGate"
    /\ call.type = "T_FF"
    /\ call.inputs = <<FALSE, TRUE>>
    /\ call.prevInputs = <<FALSE, FALSE>>
    /\ call.currentState
    /\ ret.value

\* C7: the next state of an SR_LATCH is a function of S, R and the current
\* state alone (S only: true; R only: false; neither: current; both: false),
\* whatever the previous-tick inputs were.
C7_SRLatch ==
    (/\ ret.done
     /\ ret.fn = "evaluateSequentialGate"
     /\ call.type = "SR_LATCH"
     /\ Len(call.inputs) >= 2)
    => LET s == call.inputs[1]
           r == call.inputs[2]
       IN  ret.value = CASE s /\ ~r -> TRUE
                         [] ~s /\ r -> FALSE
                         [] ~s /\ ~r -> call.currentState
                         [] OTHER -> FALSE

\* S = R = 1 on a set latch, with previous inputs that differ from the
\* current ones
C7_Witness ==
    /\ ret.done
    /\ ret.fn = "evaluateSequentialGate"
    /\ call.type = "SR_LATCH"
    /\ call.inputs = <<TRUE, TRUE>>
    /\ call.prevInputs = <<FALSE, TRUE>>
    /\ call.currentState
    /\ ~ret.value

\* C8: on every non-empty input list evaluateGate gives AND the conjunction,
\* OR the disjunction, NAND and NOR their negations, XOR "an odd number of
\* inputs is true", XNOR its negation, NOT the negation of the first input,
\* and false for every other kind.
C8_GateTruthTables ==
    (/\ ret.done
     /\ ret.fn = "evaluateGate"
     /\ Len(call.inputs) >= 1)
    => LET n == TrueCount(call.inputs)
           len == Len(call.inputs)
           t == call.type
       IN  ret.value = CASE t = "AND" -> n = len
                         [] t = "OR" -> n > 0
                         [] t = "NAND" -> n < len
                         [] t = "NOR" -> n = 0
                         [] t = "XOR" -> n % 2 = 1
                         [] t = "XNOR" -> n % 2 = 0
                         [] t = "NOT" -> ~call.inputs[1]
                         [] OTHER -> FALSE

\* a 3-input XOR with all inputs true
C8_Witness ==
    /\ ret.done
    /\ ret.fn = "evaluateGate"
    /\ call.type = "XOR"
    /\ call.inputs = <<TRUE, TRUE, TRUE>>
    /\ ret.value

\* ------------------------------------------------------------------------
\* The store: one action per handler and per deferred callback
\* ------------------------------------------------------------------------

Idle == [fn |-> "none"]

LoadCircuit(data) ==
    /\ Commit(loadCircuit(Store, data))
    /\ UNCHANGED <<call, ret>>

\* The callback of loadCircuit runs
LoadedCallback ==
    /\ timers # <<>>
    /\ Head(timers) = "loaded"
    /\ Commit(loadedCallback([Store EXCEPT !.timers = Tail(@)]))
    /\ UNCHANGED <<call, ret>>

\* A deferred () => get().evaluate() runs
EvaluateCallback ==
    /\ timers # <<>>
    /\ Head(timers) = "evaluate"
    /\ Commit(evaluate([Store EXCEPT !.timers = Tail(@)]))
    /\ UNCHANGED <<call, ret>>

AddGateNode(type) ==
    /\ Commit(addGateNode(Store, type))
    /\ UNCHANGED <<call, ret>>

OnConnect(connection) ==
    /\ Commit(onConnect(Store, connection))
    /\ UNCHANGED <<call, ret>>

OnEdgesChange(removed) ==
    /\ Commit(onEdgesChange(Store, removed))
    /\ UNCHANGED <<call, ret>>

ToggleInput(nodeId) ==
    /\ Commit(toggleInput(Store, nodeId))
    /\ UNCHANGED <<call, ret>>

\* The clock interval fires, or the step button is pressed
Tick ==
    /\ Commit(tick(Store))
    /\ UNCHANGED <<call, ret>>

\* A change of the selection, or the removal of nodes, on the canvas
OnNodesChange(changes) ==
    /\ Commit(onNodesChange(Store, changes))
    /\ UNCHANGED <<call, ret>>

\* The create-IC dialog is confirmed with a name
CreateIC(name, id) ==
    /\ Commit(createIC(Store, name, id).store)
    /\ ret' = Returned("createIC", createIC(Store, name, id).result)
    /\ UNCHANGED call

\* A definition is dropped from the library panel onto the canvas
AddICNode(icId) ==
    /\ Commit(addICNode(Store, icId))
    /\ UNCHANGED <<call, ret>>

\* The handles a node is drawn with
SourceHandles(node) ==
    CASE node.data.gateType = "OUTPUT" -> {}
      [] isSequential(node.data.gateType) -> {"output", "Q_bar"}
      [] OTHER -> {"output"}

TargetHandles(node) ==
    {InputHandle(i) : i \in 0..(node.data.inputCount - 1)}

\* The connections that can be drawn between the handles on the canvas
Connections ==
    {[source |-> nodes[i].id, sourceHandle |-> sh,
      target |-> nodes[j].id, targetHandle |-> th] :
        <<i, sh, j, th>> \in
            {q \in (1..Len(nodes)) \X {"output", "Q_bar"}
                   \X (1..Len(nodes)) \X {InputHandle(0), InputHandle(1), InputHandle(2)} :
                /\ q[2] \in SourceHandles(nodes[q[1]])
                /\ q[4] \in TargetHandles(nodes[q[3]])}}

\* The input switches on the canvas
InputSwitches ==
    {nodes[i].id : i \in {j \in 1..Len(nodes) : nodes[j].data.gateType = "INPUT"}}

\* A snapshot pushed now, and the one each pending callback of loadCircuit
\* will push, leave at most `limit` snapshots in the history
HistoryRoom(limit) ==
    historyIndex + 1
        + Cardinality({i \in 1..Len(timers) : timers[i] = "loaded"}) < limit

\* ------------------------------------------------------------------------
\* Saved circuits
\* ------------------------------------------------------------------------

\* D_FF node_3 with D from switch node_1 and CLK from node_2, which is a
\* switch or the CLOCK; Q drives output node_4
DffBoard(clkType, values) ==
    [nodes |-> <<FileNode("node_1", "INPUT", "A"),
                 FileNode("node_2", clkType,
                          IF clkType = "INPUT" THEN "B" ELSE clkType),
                 FileNode("node_3", "D_FF", "D_FF"),
                 FileNode("node_4", "OUTPUT", "Y0")>>,
     edges |-> <<FileEdge("node_1", "output", "node_3", "input-0"),
                 FileEdge("node_2", "output", "node_3", "input-1"),
                 FileEdge("node_3", "output", "node_4", "input-0")>>,
     inputValues |-> values]

\* D_FF node_3 fed back through NOT node_2, clocked by CLOCK node_1
TogglerBoard ==
    [nodes |-> <<FileNode("node_1", "CLOCK", "CLOCK"),
                 FileNode("node_2", "NOT", "NOT"),
                 FileNode("node_3", "D_FF", "D_FF"),
                 FileNode("node_4", "OUTPUT", "Y0")>>,
     edges |-> <<FileEdge("node_3", "output", "node_2", "input-0"),
                 FileEdge("node_2", "output", "node_3", "input-0"),
                 FileEdge("node_1", "output", "node_3", "input-1"),
                 FileEdge("node_3", "output", "node_4", "input-0")>>,
     inputValues |-> EmptyMap]

\* Two D_FFs in series on one CLOCK
ShiftBoard(values) ==
    [nodes |-> <<FileNode("node_1", "INPUT", "A"),
                 FileNode("node_2", "CLOCK", "CLOCK"),
                 FileNode("node_3", "D_FF", "D_FF"),
                 FileNode("node_4", "D_FF", "D_FF")>>,
     edges |-> <<FileEdge("node_1", "output", "node_3", "input-0"),
                 FileEdge("node_2", "output", "node_3", "input-1"),
                 FileEdge("node_3", "output", "node_4", "input-0"),
                 FileEdge("node_2", "output", "node_4", "input-1")>>,
     inputValues |-> values]

SwitchValues(ids) == [ids -> BOOLEAN]

\* ------------------------------------------------------------------------
\* SpecStore: a session of edits, re-evaluations and ticks
\* ------------------------------------------------------------------------

MaxSnapshots == 2
MaxTicks == 1

Palette == {"INPUT", "NOT", "D_FF"}

EditedCircuits ==
    {DffBoard("INPUT", [id \in {"node_1", "node_2"} |-> id = "node_1"]),
     TogglerBoard}

StoreSessionInit ==
    /\ call = Idle
    /\ ret = NotReturned
    /\ StoreInit

\* An edit is made once the callbacks of the edits before it have run; a
\* tick may fall between an edit and its deferred evaluate().
CanEdit == timers = <<>> /\ HistoryRoom(MaxSnapshots)

StoreNext ==
    \/ nodes = <<>> /\ \E data \in EditedCircuits : LoadCircuit(data)
    \/ LoadedCallback
    \/ EvaluateCallback
    \/ CanEdit /\ \E type \in Palette : AddGateNode(type)
    \/ CanEdit /\ \E connection \in Connections : OnConnect(connection)
    \/ CanEdit /\ \E i \in 1..Len(edges) : OnEdgesChange({i})
    \/ CanEdit /\ \E nodeId \in InputSwitches : ToggleInput(nodeId)
    \/ signalHistory.tickCount < MaxTicks /\ Tick

SpecStore == StoreSessionInit /\ [][StoreNext]_vars

\* ------------------------------------------------------------------------
\* SpecClocked: a loaded circuit under ticks, its switches toggled in between;
\* every deferred callback has run before the next toggle or tick
\* ------------------------------------------------------------------------

MaxClockedSnapshots == 4
MaxClockedTicks == 5

ClockedCircuits ==
    {DffBoard("CLOCK", v) : v \in SwitchValues({"node_1"})}
    \cup {DffBoard("INPUT", [id \in {"node_1", "node_2"} |-> FALSE])}
    \cup {ShiftBoard(v) : v \in SwitchValues({"node_1"})}
    \cup {TogglerBoard}

ClockedNext ==
    \/ nodes = <<>> /\ \E data \in ClockedCircuits : LoadCircuit(data)
    \/ LoadedCallback
    \/ EvaluateCallback
    \/ /\ timers = <<>>
       /\ HistoryRoom(MaxClockedSnapshots)
       /\ \E nodeId \in InputSwitches : ToggleInput(nodeId)
    \/ /\ timers = <<>>
       /\ signalHistory.tickCount < MaxClockedTicks
       /\ Tick

SpecClocked == StoreSessionInit /\ [][ClockedNext]_vars

\* ------------------------------------------------------------------------
\* Properties of the store's re-evaluation (checked under SpecStore)
\* ------------------------------------------------------------------------

\* A step of one of the four editing handlers or of a deferred evaluate()
EditOrReevaluation ==
    \/ EvaluateCallback
    \/ \E type \in Palette : AddGateNode(type)
    \/ \E connection \in Connections : OnConnect(connection)
    \/ \E i \in 1..Len(edges) : OnEdgesChange({i})
    \/ \E nodeId \in InputSwitches : ToggleInput(nodeId)

\* C1: addGateNode, onConnect, onEdgesChange, toggleInput and every deferred
\* evaluate() they trigger leave internalState, prevNodeOutputs and
\* clockState as the last tick left them; the nextState that evaluate()
\* computes is dropped, in the cycle branch too.
C1_ReevaluationKeepsRegisters ==
    [][EditOrReevaluation
        => UNCHANGED <<internalState, prevNodeOutputs, clockState>>]_vars

\* A tick stored 1 in register node_3; a connection then closed a loop and
\* the deferred evaluate() took the cycle branch, the register still 1
C1_Witness ==
    /\ hasCycle
    /\ timers = <<>>
    /\ signalHistory.tickCount > 0
    /\ StateBit(internalState, "node_3")
    /\ clockState
    /\ prevNodeOutputs # EmptyMap

\* The deferred evaluate() ran on a circuit whose nextState differs from the
\* register state of the store, and the register state stayed
C1_WitnessDiscarded ==
    /\ ~hasCycle
    /\ timers = <<>>
    /\ signalHistory.tickCount > 0
    /\ historyIndex > 0
    /\ nodeOutputs # EmptyMap
    /\ EvaluateStore(Store, clockState).nextState # internalState

\* ------------------------------------------------------------------------
\* Properties of ticks (checked under SpecClocked)
\* ------------------------------------------------------------------------

\* The edge that drives a pin: the last edge into it, 0 if there is none
DriverOf(nodeId, pin) ==
    LET E == EngineEdges(edges)
        S == {i \in 1..Len(E) : E[i].target = nodeId /\ E[i].targetHandle = pin}
    IN  IF S = {} THEN 0 ELSE MaxOf(S)

\* The level at a pin in the outputs of one evaluation
PinLevel(outputs, nodeId, pin) ==
    LET i == DriverOf(nodeId, pin)
        e == EngineEdges(edges)[i]
    IN  IF i = 0 THEN FALSE
        ELSE getPrimaryOutput(outputs, e.source, e.sourceHandle)

\* The level at a pin in the latest tick the signal history recorded, false
\* before the first tick
PinLevelAtLastTick(nodeId, pin) ==
    LET i == DriverOf(nodeId, pin)
        e == EngineEdges(edges)[i]
        samples == Get(Get(signalHistory.data, e.source, EmptyMap),
                       e.sourceHandle, <<>>)
    IN  IF i = 0 \/ samples = <<>> THEN FALSE
        ELSE samples[Len(samples)]

DFlipFlops ==
    {nodes[i].id : i \in {j \in 1..Len(nodes) : nodes[j].data.gateType = "D_FF"}}

\* C5: a tick leaves in every D_FF its D input of this tick if its CLK input
\* is true in this tick and was false in the previous tick, and the state it
\* had before the tick otherwise.
C5_DFFCapturesOnRisingEdge ==
    [][Tick =>
        \A id \in DFlipFlops :
            LET d == PinLevel(prevNodeOutputs', id, InputHandle(0))
                clk == PinLevel(prevNodeOutputs', id, InputHandle(1))
                was == PinLevelAtLastTick(id, InputHandle(1))
            IN  StateBit(internalState', id) =
                    IF clk /\ ~was THEN d ELSE StateBit(internalState, id)]_vars

\* The recorded run CLK 1,0,1,0,1 with D 0,1,0,1,1 on the clocked board:
\* after the first tick, CLK 0,1,0,1 with D 1,0,1,1 from state 0 gave the
\* states 0,0,0,1
C5_Witness ==
    /\ nodes # <<>>
    /\ nodes[2].data.gateType = "CLOCK"
    /\ "node_3" \in DOMAIN signalHistory.data
    /\ signalHistory.data["node_2"]["output"] = <<TRUE, FALSE, TRUE, FALSE, TRUE>>
    /\ signalHistory.data["node_1"]["output"] = <<FALSE, TRUE, FALSE, TRUE, TRUE>>
    /\ signalHistory.data["node_3"]["Q"] = <<FALSE, FALSE, FALSE, FALSE, FALSE>>
    /\ StateBit(internalState, "node_3")

\* ------------------------------------------------------------------------
\* SpecTicking: a loaded circuit, with or without a loop, under ticks that
\* may fall before the deferred callbacks of the load and of a toggle
\* ------------------------------------------------------------------------

MaxTickingSnapshots == 3
MaxSteps == 3

\* NOT node_2 wired to itself beside a clocked D_FF
RingBoard ==
    [nodes |-> <<FileNode("node_1", "CLOCK", "CLOCK"),
                 FileNode("node_2", "NOT", "NOT"),
                 FileNode("node_3", "D_FF", "D_FF"),
                 FileNode("node_4", "OUTPUT", "Y0")>>,
     edges |-> <<FileEdge("node_2", "output", "node_2", "input-0"),
                 FileEdge("node_2", "output", "node_3", "input-0"),
                 FileEdge("node_1", "output", "node_3", "input-1"),
                 FileEdge("node_3", "output", "node_4", "input-0")>>,
     inputValues |-> EmptyMap]

\* The clocked D_FF board of a file that also holds a value for its CLOCK
\* node, and the board with a loop
TickingCircuits ==
    {DffBoard("CLOCK", v) : v \in SwitchValues({"node_1", "node_2"})}
    \cup {RingBoard}

TickingNext ==
    \/ nodes = <<>> /\ \E data \in TickingCircuits : LoadCircuit(data)
    \/ LoadedCallback
    \/ EvaluateCallback
    \/ /\ timers = <<>>
       /\ HistoryRoom(MaxTickingSnapshots)
       /\ \E nodeId \in InputSwitches : ToggleInput(nodeId)
    \/ signalHistory.tickCount < MaxSteps /\ Tick

SpecTicking == StoreSessionInit /\ [][TickingNext]_vars

\* ------------------------------------------------------------------------
\* Properties of tick() (checked under SpecTicking)
\* ------------------------------------------------------------------------

ClockNodeIds ==
    {nodes[i].id : i \in {j \in 1..Len(nodes) : nodes[j].data.gateType = "CLOCK"}}

\* inputValues with every CLOCK node at `level`, whatever is stored for it
ClockDriven(level) ==
    [id \in (DOMAIN inputValues) \cup ClockNodeIds |->
        IF id \in ClockNodeIds THEN level ELSE inputValues[id]]

\* The evaluation of the board with the clock at `level`
EvaluationAt(level) ==
    evaluateCircuit(EngineNodes(nodes), EngineEdges(edges), ClockDriven(level),
                    internalState, prevNodeOutputs, icLibrary)

C22_WitnessCycle ==
    /\ hasCycle
    /\ timers = <<>>
    /\ ~clockState
    /\ signalHistory.tickCount = 0
    /\ tick(Store) = Store

\* ------------------------------------------------------------------------
\* SpecNested: a board with two instances of a register definition and a
\* plain register of the same kind, evaluated tick after tick, each tick's
\* nextState and nodeOutputs handed to the next as tick() does
\* ------------------------------------------------------------------------

MaxNestedTicks == 2

NestedRegisters == {"D_FF", "T_FF", "JK_FF"}

\* Three switches on the pins of one register, its Q on an output
RegisterSourceNodes(type) ==
    <<Node("node_41", "INPUT", "A", 0, NoIcId),
      Node("node_42", "INPUT", "B", 0, NoIcId),
      Node("node_43", "INPUT", "C", 0, NoIcId),
      Node("node_44", type, type, GATE_INPUT_COUNTS[type], NoIcId),
      Node("node_45", "OUTPUT", "Y0", 1, NoIcId)>>

RegisterSourceEdges(type) ==
    <<Edge("node_41", "output", "node_44", "input-0"),
      Edge("node_42", "output", "node_44", "input-1")>>
    \o (IF GATE_INPUT_COUNTS[type] > 2
        THEN <<Edge("node_43", "output", "node_44", "input-2")>> ELSE <<>>)
    \o <<Edge("node_44", "output", "node_45", "input-0")>>

RegisterIC(type) ==
    createICDefinition("ic_" \o type, type,
                       {"node_41", "node_42", "node_43", "node_44", "node_45"},
                       RegisterSourceNodes(type), RegisterSourceEdges(type))

\* Instance node_54 on the switches A, B, C; instance node_55 on NOT A, B,
\* C; the plain register node_57 on A, B, C
NestedNodes(type) ==
    <<Node("node_51", "INPUT", "A", 0, NoIcId),
      Node("node_52", "INPUT", "B", 0, NoIcId),
      Node("node_53", "INPUT", "C", 0, NoIcId),
      Node("node_54", "IC_CUSTOM", type, 3, "ic_" \o type),
      Node("node_55", "IC_CUSTOM", type, 3, "ic_" \o type),
      Node("node_56", "NOT", "NOT", 1, NoIcId),
      Node("node_57", type, type, GATE_INPUT_COUNTS[type], NoIcId),
      Node("node_58", "OUTPUT", "Y1", 1, NoIcId),
      Node("node_59", "OUTPUT", "Y2", 1, NoIcId)>>

NestedEdges(type) ==
    <<Edge("node_51", "output", "node_54", IcInHandle("node_41")),
      Edge("node_52", "output", "node_54", IcInHandle("node_42")),
      Edge("node_53", "output", "node_54", IcInHandle("node_43")),
      Edge("node_51", "output", "node_56", "input-0"),
      Edge("node_56", "output", "node_55", IcInHandle("node_41")),
      Edge("node_52", "output", "node_55", IcInHandle("node_42")),
      Edge("node_53", "output", "node_55", IcInHandle("node_43")),
      Edge("node_51", "output", "node_57", "input-0"),
      Edge("node_52", "output", "node_57", "input-1")>>
    \o (IF GATE_INPUT_COUNTS[type] > 2
        THEN <<Edge("node_53", "output", "node_57", "input-2")>> ELSE <<>>)
    \o <<Edge("node_54", IcOutHandle("node_45"), "node_58", "input-0"),
         Edge("node_55", IcOutHandle("node_45"), "node_59", "input-0")>>

NestedSwitches == {"node_51", "node_52", "node_53"}

\* The internalState of the first call: nothing, a boolean where the nested
\* map of node_54 belongs, or a nested map holding 1
NestedStates ==
    {EmptyMap,
     [id \in {"node_54"} |-> Bit(TRUE)],
     [id \in {"node_54"} |-> Sub([r \in {"node_44"} |-> Bit(TRUE)])]}

\* call.log lists the inputValues of the ticks so far, call.initialState
\* is the internalState of the first call
NestedInit ==
    /\ \E type \in NestedRegisters :
         \E st \in NestedStates :
            call = [name |-> "nested",
                    type |-> type,
                    nodes |-> NestedNodes(type),
                    edges |-> NestedEdges(type),
                    icLibrary |-> <<RegisterIC(type)>>,
                    initialState |-> st,
                    internalState |-> st,
                    prevNodeOutputs |-> EmptyMap,
                    log |-> <<>>]
    /\ ret = NotReturned
    /\ StoreInit

\* 3. Evaluate Next State, 4. Commit state
CommitNextState(c, levels, result) ==
    [c EXCEPT !.internalState = result.nextState,
              !.prevNodeOutputs = result.nodeOutputs,
              !.log = Append(@, levels)]

TickNested ==
    /\ call.name = "nested"
    /\ Len(call.log) < MaxNestedTicks
    /\ \E levels \in [NestedSwitches -> BOOLEAN] :
         LET result == evaluateCircuit(call.nodes, call.edges, levels,
                                       call.internalState, call.prevNodeOutputs,
                                       call.icLibrary)
         IN  /\ ret' = Returned("evaluateCircuit", result)
             /\ call' = CommitNextState(call, levels, result)
    /\ UNCHANGED storeVars

NestedNext == TickNested

SpecNested == NestedInit /\ [][NestedNext]_vars

\* ------------------------------------------------------------------------
\* Properties of nested registers (checked under SpecNested)
\* ------------------------------------------------------------------------

NestedInstances == {"node_54", "node_55"}

\* The bit of the register inside instance `id`, false where the state holds
\* no map for the instance or the map no bit
NestedBit(state, id) ==
    IF id \in DOMAIN state /\ state[id].tag = "map"
       /\ "node_44" \in DOMAIN state[id].map
       /\ state[id].map["node_44"].tag = "bit"
    THEN state[id].map["node_44"].bit
    ELSE FALSE

\* The levels on the pins A, B, C of instance `id` for the given switches
PinLevels(id, levels) ==
    <<IF id = "node_55" THEN ~levels["node_51"] ELSE levels["node_51"],
      levels["node_52"], levels["node_53"]>>

\* The clock pin of a register kind (0-based)
ClockPin(type) == IF type = "JK_FF" THEN 2 ELSE 1

\* What a register does on a rising clock edge
OnRisingEdge(type, pins, bit) ==
    CASE type = "D_FF" -> pins[1]
      [] type = "T_FF" -> (IF pins[1] THEN ~bit ELSE bit)
      [] type = "JK_FF" -> (IF pins[1] /\ pins[2] THEN ~bit
                            ELSE IF pins[1] THEN TRUE
                            ELSE IF pins[2] THEN FALSE
                            ELSE bit)

\* C23: for an IC instance with a resolvable definition evaluateCircuit
\* seeds the nested register from internalState[instanceId] (empty if absent
\* or not a map) and returns the nested next state under
\* nextState[instanceId]; with nextState committed after each tick the
\* nested bit is carried from tick to tick, and two instances of the same
\* definition keep their own nested state.
C23_NestedStateCarried ==
    [][TickNested =>
        /\ call'.internalState = ret'.value.nextState
        /\ \A id \in NestedInstances :
             LET bit == NestedBit(call.internalState, id)
                 pins == PinLevels(id, call'.log[Len(call'.log)])
                 next == ret'.value.nextState
             IN  /\ ret'.value.nodeOutputs[id][IcOutHandle("node_45")] = bit
                 /\ id \in DOMAIN next
                 /\ next[id].tag = "map"
                 /\ DOMAIN next[id].map = {"node_44"}
                 /\ NestedBit(next, id) =
                        evaluateSequentialGate(call.type, pins,
                            <<FALSE, FALSE, FALSE>>, bit)]_vars

\* D_FF, second tick, clock low: instance node_54 still holds the 1 it took
\* in the first tick and shows it, instance node_55 holds the 0 it took
C23_Witness ==
    /\ call.name = "nested"
    /\ call.type = "D_FF"
    /\ ret.done
    /\ Len(call.log) = 2
    /\ call.log[1] = [id \in NestedSwitches |-> id # "node_53"]
    /\ call.log[2] = [id \in NestedSwitches |-> FALSE]
    /\ ret.value.nodeOutputs["node_54"][IcOutHandle("node_45")]
    /\ ~ret.value.nodeOutputs["node_55"][IcOutHandle("node_45")]
    /\ NestedBit(call.internalState, "node_54")
    /\ ~NestedBit(call.internalState, "node_55")

\* A boolean stored where the nested map of node_54 belongs is read as an
\* empty nested state
C23_WitnessNotAMap ==
    /\ call.name = "nested"
    /\ ret.done
    /\ Len(call.log) = 1
    /\ call.initialState = [id \in {"node_54"} |-> Bit(TRUE)]
    /\ ~ret.value.nodeOutputs["node_54"][IcOutHandle("node_45")]
    /\ call.internalState["node_54"].tag = "map"

\* C24: a register nested in an IC instance is evaluated with an empty
\* previous-output snapshot, so its previous clock level counts as false on
\* every call: a nested D_FF, T_FF or JK_FF treats every evaluation in which
\* its clock pin is true as a rising edge, whatever the clock was on the
\* tick before (a nested D_FF takes D on each of two consecutive ticks with
\* the clock held true), and keeps its bit while the clock pin is false.
C24_NestedClockAlwaysRises ==
    [][TickNested =>
        \A id \in NestedInstances :
            LET bit == NestedBit(call.internalState, id)
                pins == PinLevels(id, call'.log[Len(call'.log)])
            IN  NestedBit(call'.internalState, id) =
                    IF pins[ClockPin(call.type) + 1]
                    THEN OnRisingEdge(call.type, pins, bit)
                    ELSE bit]_vars

\* D_FF, clock held true over two ticks, D = 1 then D = 0: the nested
\* register took the 0 of the second tick, the plain register beside it on
\* the same switches kept the 1 of the first
C24_Witness ==
    /\ call.name = "nested"
    /\ call.type = "D_FF"
    /\ ret.done
    /\ Len(call.log) = 2
    /\ call.log[1] = [id \in NestedSwitches |-> id # "node_53"]
    /\ call.log[2] = [id \in NestedSwitches |-> id = "node_52"]
    /\ ~NestedBit(call.internalState, "node_54")
    /\ StateBit(call.internalState, "node_57")

\* ------------------------------------------------------------------------
\* Dangling IC references (checked under SpecEngine)
\* ------------------------------------------------------------------------

\* The IC_CUSTOM nodes of a graph whose icId names no definition of the library
DanglingInstances(gNodes, library) ==
    {gNodes[i].id : i \in {j \in 1..Len(gNodes) :
        /\ gNodes[j].type = "IC_CUSTOM"
        /\ \A k \in 1..Len(library) : library[k].id # gNodes[j].icId}}

\* The graph with every dangling instance replaced by a switch that is off
Grounded(gNodes, library) ==
    [i \in 1..Len(gNodes) |->
        IF gNodes[i].id \in DanglingInstances(gNodes, library)
        THEN Node(gNodes[i].id, "INPUT", gNodes[i].label, 0, NoIcId)
        ELSE gNodes[i]]

\* C11: an IC_CUSTOM node whose definition is not in the library does not
\* fail the evaluation: hasCycle is false, every edge that reads a handle of
\* the node sees false, the node has no entry in nextState, and every other
\* node is evaluated as if the node were a source that is constantly false.
C11_DanglingICReadsFalse ==
    (/\ ret.done
     /\ ret.fn = "evaluateCircuit"
     /\ DanglingInstances(call.nodes, call.icLibrary) # {})
    => LET dangling == DanglingInstances(call.nodes, call.icLibrary)
           grounded == evaluateCircuit(Grounded(call.nodes, call.icLibrary),
                            call.edges, call.inputValues, call.internalState,
                            call.prevNodeOutputs, call.icLibrary)
       IN  /\ ~ret.value.hasCycle
           /\ \A i \in 1..Len(call.edges) :
                call.edges[i].source \in dangling
                => ~getPrimaryOutput(ret.value.nodeOutputs, call.edges[i].source,
                                     call.edges[i].sourceHandle)
           /\ \A id \in dangling : id \notin DOMAIN ret.value.nextState
           /\ ret.value.nodeOutputs = grounded.nodeOutputs
           /\ ret.value.circuitOutputs = grounded.circuitOutputs
           /\ ret.value.circuitOutputs =
                [id \in {"node_25", "node_26", "node_27"} |->
                    CASE id = "node_25" -> call.inputValues["node_21"]
                      [] id = "node_26" -> TRUE
                      [] id = "node_27" -> FALSE]

\* The instance of a deleted definition was evaluated with the library still
\* holding other definitions and the caller still holding a set register for
\* it: the OR passes the switch, the NOT reads false
C11_Witness ==
    /\ ret.done
    /\ ret.fn = "evaluateCircuit"
    /\ call.name = "dangling"
    /\ call.icLibrary = EngineLibrary
    /\ call.nodes[2].icId = "ic_gone"
    /\ call.internalState = [id \in {"node_22"} |-> Sub(RegState(TRUE))]
    /\ call.inputValues["node_21"]
    /\ ret.value.circuitOutputs["node_25"]
    /\ ret.value.circuitOutputs["node_26"]
    /\ ~ret.value.circuitOutputs["node_27"]
    /\ ret.value.nextState = EmptyMap

\* ------------------------------------------------------------------------
\* An AND gate wrapped in a definition (checked under SpecEngine)
\* ------------------------------------------------------------------------

\* C12: the parent circuit that instantiates the definition made from two
\* INPUT nodes, an AND gate and an OUTPUT node gives, for every combination
\* of its two inputs, the circuitOutputs value that the circuit with the AND
\* gate itself gives for the same combination.
C12_WrappedAndEqualsAnd ==
    (ret.done /\ ret.fn = "evaluateCircuit" /\ call.name = "wrapped and")
    => LET a == call.inputValues["node_35"]
           b == call.inputValues["node_36"]
           direct == evaluateCircuit(AndNodes, AndEdges,
                        [id \in {"node_31", "node_32"} |->
                            IF id = "node_31" THEN a ELSE b],
                        EmptyMap, EmptyMap, <<>>)
       IN  /\ ~ret.value.hasCycle
           /\ DOMAIN ret.value.circuitOutputs = {"node_38"}
           /\ ret.value.circuitOutputs["node_38"] = direct.circuitOutputs["node_34"]
           /\ ret.value.circuitOutputs["node_38"] = (a /\ b)

\* Both switches on: the instance's output pin, and with it the parent's
\* output, is true
C12_Witness ==
    /\ ret.done
    /\ ret.fn = "evaluateCircuit"
    /\ call.name = "wrapped and"
    /\ call.inputValues = [id \in {"node_35", "node_36"} |-> TRUE]
    /\ ret.value.nodeOutputs["node_37"][IcOutHandle("node_34")]
    /\ ret.value.circuitOutputs["node_38"]

\* ------------------------------------------------------------------------
\* SpecLibrary: nodes of a loaded circuit are selected and packaged as ICs
\* ------------------------------------------------------------------------

MaxDefinitions == 1

\* The AND circuit as a saved file
AndBoard ==
    [nodes |-> <<FileNode("node_1", "INPUT", "A"),
                 FileNode("node_2", "INPUT", "B"),
                 FileNode("node_3", "AND", "AND"),
                 FileNode("node_4", "OUTPUT", "Y0")>>,
     edges |-> <<FileEdge("node_1", "output", "node_3", "input-0"),
                 FileEdge("node_2", "output", "node_3", "input-1"),
                 FileEdge("node_3", "output", "node_4", "input-0")>>,
     inputValues |-> [id \in {"node_1", "node_2"} |-> FALSE]]

LibraryCircuits ==
    {AndBoard, DffBoard("CLOCK", [id \in {"node_1"} |-> FALSE])}

\* A click that selects or deselects one node
SelectChanges ==
    {{[type |-> "select", id |-> nodes[i].id, selected |-> b]} :
        i \in 1..Len(nodes), b \in BOOLEAN}

NextICId == "ic_" \o ToString(Len(icLibrary) + 1)

LibraryNext ==
    \/ nodes = <<>> /\ \E data \in LibraryCircuits : LoadCircuit(data)
    \/ LoadedCallback
    \/ \E changes \in SelectChanges : OnNodesChange(changes)
    \/ Len(icLibrary) < MaxDefinitions /\ CreateIC("IC", NextICId)

SpecLibrary == StoreSessionInit /\ [][LibraryNext]_vars

\* ------------------------------------------------------------------------
\* Properties of IC creation (checked under SpecLibrary)
\* ------------------------------------------------------------------------

SelectedTypes ==
    {nodes[i].data.gateType : i \in {j \in 1..Len(nodes) : nodes[j].selected}}

SelectedNodeIds ==
    {nodes[i].id : i \in {j \in 1..Len(nodes) : nodes[j].selected}}

\* C13: validateICSelection reports valid exactly when the selection has at
\* least one node, an INPUT node, an OUTPUT node and no CLOCK node; createIC
\* appends one definition to icLibrary and returns success when it is valid,
\* and otherwise leaves icLibrary as it was and returns success = false with
\* an error.
C13_CreateICOnlyWhenValid ==
    [][CreateIC("IC", NextICId) =>
        LET ok == /\ SelectedNodeIds # {}
                  /\ "INPUT" \in SelectedTypes
                  /\ "OUTPUT" \in SelectedTypes
                  /\ "CLOCK" \notin SelectedTypes
        IN  /\ validateICSelection(SelectedNodeIds, ICEngineNodes(nodes)).valid = ok
            /\ ret'.value.success = ok
            /\ IF ok
               THEN /\ Len(icLibrary') = Len(icLibrary) + 1
                    /\ SubSeq(icLibrary', 1, Len(icLibrary)) = icLibrary
                    /\ {icLibrary'[Len(icLibrary')].nodes[i].id :
                          i \in 1..Len(icLibrary'[Len(icLibrary')].nodes)}
                       = SelectedNodeIds
               ELSE /\ icLibrary' = icLibrary
                    /\ ret'.value.error # ""]_vars

\* A selection with an INPUT, an OUTPUT and the CLOCK was refused
C13_Witness ==
    /\ ret.done
    /\ ret.fn = "createIC"
    /\ ~ret.value.success
    /\ ret.value.error = "IC cannot contain Clock nodes (clocks are global)"
    /\ {"INPUT", "OUTPUT", "CLOCK"} \subseteq SelectedTypes
    /\ icLibrary = <<>>

\* A selection with inputs and an output, and no clock, became a definition
C13_WitnessCreated ==
    /\ ret.done
    /\ ret.fn = "createIC"
    /\ ret.value.success
    /\ Len(icLibrary) = 1
    /\ Len(icLibrary[1].inputPins) = 2
    /\ Len(icLibrary[1].outputPins) = 1

\* ------------------------------------------------------------------------
\* SpecAnalysis: truth tables and expressions of small circuits
\* ------------------------------------------------------------------------

MaxTableInputs == 2

TableGates == {"AND", "OR", "XOR", "NAND", "NOR", "XNOR", "NOT", "D_FF"}

GateNodeId == "node_7"
FirstOutputId == "node_8"
SecondOutputId == "node_9"

\* k INPUT nodes labelled by `labels`, one gate reading inputs p and q (0: the
\* pin is left open), an OUTPUT "Y1" on the gate and, after it in the node
\* list, an OUTPUT "Y0" on input p
TableNodes(k, labels, gate) ==
    [j \in 1..k |-> Node(NodeIdOf(j), "INPUT", labels[j], 0, NoIcId)]
    \o <<Node(GateNodeId, gate, gate, GATE_INPUT_COUNTS[gate], NoIcId),
         Node(FirstOutputId, "OUTPUT", "Y1", 1, NoIcId),
         Node(SecondOutputId, "OUTPUT", "Y0", 1, NoIcId)>>

TableEdges(p, q) ==
    (IF p = 0 THEN <<>>
     ELSE <<Edge(NodeIdOf(p), "output", GateNodeId, InputHandle(0)),
            Edge(NodeIdOf(p), "output", SecondOutputId, InputHandle(0))>>)
    \o (IF q = 0 THEN <<>>
        ELSE <<Edge(NodeIdOf(q), "output", GateNodeId, InputHandle(1))>>)
    \o <<Edge(GateNodeId, "output", FirstOutputId, InputHandle(0))>>

\* Two sources, each feeding a NOT and an AND of the cone of one OUTPUT:
\* Y0 = (s1 AND NOT s2) OR (NOT s1 AND s2)
SharedSourceKinds == {"INPUT", "CLOCK", "D_FF"}

SharedNodes(kind1, kind2) ==
    <<Node("node_1", kind1, "A", GATE_INPUT_COUNTS[kind1], NoIcId),
      Node("node_2", kind2, "B", GATE_INPUT_COUNTS[kind2], NoIcId),
      Node("node_3", "NOT", "NOT", 1, NoIcId),
      Node("node_4", "NOT", "NOT", 1, NoIcId),
      Node("node_5", "AND", "AND", 2, NoIcId),
      Node("node_6", "AND", "AND", 2, NoIcId),
      Node(GateNodeId, "OR", "OR", 2, NoIcId),
      Node(FirstOutputId, "OUTPUT", "Y0", 1, NoIcId)>>

SharedEdges ==
    <<Edge("node_1", "output", "node_3", InputHandle(0)),
      Edge("node_2", "output", "node_4", InputHandle(0)),
      Edge("node_1", "output", "node_5", InputHandle(0)),
      Edge("node_4", "output", "node_5", InputHandle(1)),
      Edge("node_3", "output", "node_6", InputHandle(0)),
      Edge("node_2", "output", "node_6", InputHandle(1)),
      Edge("node_5", "output", GateNodeId, InputHandle(0)),
      Edge("node_6", "output", GateNodeId, InputHandle(1)),
      Edge(GateNodeId, "output", FirstOutputId, InputHandle(0))>>

AnalysisInit ==
    /\ \/ \E k \in 0..MaxTableInputs :
            \E labels \in [1..k -> {InputLabels[j] : j \in 1..k}] :
              \E gate \in TableGates :
                \E p, q \in 0..k :
                  call = [name |-> "circuit",
                          nodes |-> TableNodes(k, labels, gate),
                          edges |-> TableEdges(p, q)]
       \/ \E kind1, kind2 \in SharedSourceKinds :
            call = [name |-> "circuit",
                    nodes |-> SharedNodes(kind1, kind2),
                    edges |-> SharedEdges]
    /\ ret = NotReturned
    /\ StoreInit

CallGenerateTruthTable ==
    /\ call.name = "circuit"
    /\ ~ret.done
    /\ ret' = Returned("generateTruthTable",
                       generateTruthTable(call.nodes, call.edges))
    /\ UNCHANGED <<call, storeVars>>

\* simplifyToSOP on the table that generateTruthTable returned
CallSimplifyToSOP ==
    /\ ret.done
    /\ ret.fn = "generateTruthTable"
    /\ \E outputLabel \in SeqToSet(ret.value.outputLabels) \cup {"Z"} :
         /\ call' = [name |-> "simplifyToSOP",
                     truthTable |-> ret.value,
                     outputLabel |-> outputLabel]
         /\ ret' = Returned("simplifyToSOP",
                            simplifyToSOP(ret.value, outputLabel))
    /\ UNCHANGED storeVars

\* The store asks for the expression of every OUTPUT node
CallExtractBooleanExpression ==
    /\ call.name = "circuit"
    /\ ~ret.done
    /\ \E i \in 1..Len(call.nodes) :
         /\ call.nodes[i].type = "OUTPUT"
         /\ call' = [name |-> "extractBooleanExpression",
                     nodes |-> call.nodes,
                     edges |-> call.edges,
                     outputId |-> call.nodes[i].id]
         /\ ret' = Returned("extractBooleanExpression",
                            extractBooleanExpression(call.nodes, call.edges,
                                                     call.nodes[i].id))
    /\ UNCHANGED storeVars

AnalysisNext ==
    \/ CallGenerateTruthTable
    \/ CallSimplifyToSOP
    \/ CallExtractBooleanExpression

SpecAnalysis == AnalysisInit /\ [][AnalysisNext]_vars

\* ------------------------------------------------------------------------
\* Properties of the truth table and the expressions (checked under
\* SpecAnalysis)
\* ------------------------------------------------------------------------

InputsOf(gNodes) ==
    {i \in 1..Len(gNodes) : gNodes[i].type = "INPUT"}

OutputsOf(gNodes) ==
    {i \in 1..Len(gNodes) : gNodes[i].type = "OUTPUT"}

\* 0-based position of node i among the nodes `among` in label order (nodes
\* with equal labels keep their order in the node list)
LabelPosition(gNodes, among, i) ==
    Cardinality({j \in among :
        \/ LabelRank(gNodes[j].label) < LabelRank(gNodes[i].label)
        \/ gNodes[j].label = gNodes[i].label /\ j < i})

UniqueLabel(gNodes, among, i) ==
    \A j \in among : gNodes[j].label = gNodes[i].label => j = i

\* The assignment of row i: bit k - 1 - j of i for the j-th input
BinaryAssignment(gNodes, i) ==
    LET ins == InputsOf(gNodes)
        k == Cardinality(ins)
    IN  [id \in {gNodes[x].id : x \in ins} |->
            LET x == CHOOSE y \in ins : gNodes[y].id = id
            IN  (i \div (2 ^ (k - 1 - LabelPosition(gNodes, ins, x)))) % 2 = 1]

\* C14: for a circuit with k INPUT nodes generateTruthTable returns 2^k rows;
\* row i gives the j-th input in label order bit k - 1 - j of i, and its
\* outputs are the circuitOutputs of an evaluation with that assignment, an
\* empty register state and empty previous outputs.
C14_TruthTableRows ==
    (ret.done /\ ret.fn = "generateTruthTable") =>
        LET table == ret.value
            ins == InputsOf(call.nodes)
            outs == OutputsOf(call.nodes)
            k == Cardinality(ins)
        IN  /\ Len(table.rows) = 2 ^ k
            /\ Len(table.inputLabels) = k
            /\ \A x \in ins :
                 table.inputLabels[LabelPosition(call.nodes, ins, x) + 1]
                     = call.nodes[x].label
            /\ \A i \in 0..(2 ^ k - 1) :
                 LET assignment == BinaryAssignment(call.nodes, i)
                     result == evaluateCircuit(call.nodes, call.edges, assignment,
                                               EmptyMap, EmptyMap, <<>>)
                 IN  /\ \A x \in ins :
                          UniqueLabel(call.nodes, ins, x) =>
                              table.rows[i + 1].inputs[call.nodes[x].label]
                                  = assignment[call.nodes[x].id]
                     /\ \A y \in outs :
                          UniqueLabel(call.nodes, outs, y) =>
                              table.rows[i + 1].outputs[call.nodes[y].label]
                                  = Get(result.circuitOutputs, call.nodes[y].id,
                                        FALSE)

\* The 2-input AND whose first node is labelled "B" and second "A": the rows
\* are 00, 01, 10, 11 over (A, B), Y1 = A AND B and Y0 = B
C14_Witness ==
    /\ ret.done
    /\ ret.fn = "generateTruthTable"
    /\ call.nodes = TableNodes(2, <<"B", "A">>, "AND")
    /\ call.edges = TableEdges(1, 2)
    /\ ret.value.inputLabels = <<"A", "B">>
    /\ ret.value.outputLabels = <<"Y0", "Y1">>
    /\ [i \in 1..4 |-> ret.value.rows[i].inputs["A"]] = <<FALSE, FALSE, TRUE, TRUE>>
    /\ [i \in 1..4 |-> ret.value.rows[i].inputs["B"]] = <<FALSE, TRUE, FALSE, TRUE>>
    /\ [i \in 1..4 |-> ret.value.rows[i].outputs["Y1"]] = <<FALSE, FALSE, FALSE, TRUE>>
    /\ [i \in 1..4 |-> ret.value.rows[i].outputs["Y0"]] = <<FALSE, TRUE, FALSE, TRUE>>

RECURSIVE SumOfMinterms(_, _, _)
\* The minterms of rows from..Len(rows) whose output `label` is true, each
\* preceded by " + " except the first one written
SumOfMinterms(table, label, from) ==
    IF from > Len(table.rows) THEN ""
    ELSE LET row == table.rows[from]
             literal(j) == IF row.inputs[table.inputLabels[j]]
                           THEN table.inputLabels[j]
                           ELSE table.inputLabels[j] \o "'"
             product[j \in 0..Len(table.inputLabels)] ==
                 IF j = 0 THEN "" ELSE product[j - 1] \o literal(j)
             rest == SumOfMinterms(table, label, from + 1)
         IN  IF label \in DOMAIN row.outputs /\ row.outputs[label]
             THEN product[Len(table.inputLabels)]
                      \o (IF rest = "" THEN "" ELSE " + " \o rest)
             ELSE rest

TrueRows(table, label) ==
    {i \in 1..Len(table.rows) :
        label \in DOMAIN table.rows[i].outputs /\ table.rows[i].outputs[label]}

\* C16: simplifyToSOP returns "0" when no row has the output true, "1" when
\* every row has it true, and otherwise the minterms of exactly the true rows,
\* in row order, joined by " + ", each minterm being the concatenation over
\* inputLabels of the label (input true) or the label followed by ' (false).
C16_SumOfProducts ==
    (ret.done /\ ret.fn = "simplifyToSOP") =>
        LET table == call.truthTable
            trueRows == TrueRows(table, call.outputLabel)
        IN  ret.value =
                IF trueRows = {} THEN "0"
                ELSE IF trueRows = 1..Len(table.rows) THEN "1"
                ELSE SumOfMinterms(table, call.outputLabel, 1)

\* Inputs A and B, Y1 true only on rows 01 and 10: A'B + AB'
C16_Witness ==
    /\ ret.done
    /\ ret.fn = "simplifyToSOP"
    /\ call.outputLabel = "Y1"
    /\ call.truthTable.inputLabels = <<"A", "B">>
    /\ TrueRows(call.truthTable, "Y1") = {2, 3}
    /\ ret.value = "A'B + AB'"

\* No true row, and every row true
C16_WitnessConstants ==
    /\ ret.done
    /\ ret.fn = "simplifyToSOP"
    /\ Len(call.truthTable.rows) = 4
    /\ \/ TrueRows(call.truthTable, call.outputLabel) = {} /\ ret.value = "0"
       \/ TrueRows(call.truthTable, call.outputLabel) = 1..4 /\ ret.value = "1"

\* The graph has a directed cycle
HasDirectedCycle(gNodes, gEdges) ==
    LET E == {<<gEdges[i].source, gEdges[i].target>> : i \in 1..Len(gEdges)}
    IN  \E id \in NodeIdsOf(gNodes) : id \in Closure(E, Successors(E, {id}))

RECURSIVE Rendered(_, _, _)
\* The expression of a node of an acyclic graph: an INPUT is its label, a
\* CLOCK is CLK, a register is its kind followed by (Q), an OUTPUT is its
\* driver, and a gate is the infix form of its pins' drivers (0 for an open
\* pin)
Rendered(gNodes, gEdges, id) ==
    IF id \notin NodeIdsOf(gNodes) THEN "?"
    ELSE
    LET node == NodeById(gNodes, id)
        into == {x \in 1..Len(gEdges) : gEdges[x].target = id}
        pin(i) ==
            LET drivers == {gEdges[x].source :
                               x \in {y \in into :
                                   gEdges[y].targetHandle = InputHandle(i)}}
                first == {x \in into :
                             /\ gEdges[x].source \in drivers
                             /\ \A y \in into :
                                  gEdges[y].source \in drivers => x <= y}
            IN  IF first = {} THEN "0"
                ELSE Rendered(gNodes, gEdges,
                              gEdges[CHOOSE x \in first : TRUE].source)
        pins == [i \in 1..node.inputCount |-> pin(i - 1)]
    IN  CASE node.type = "INPUT" -> node.label
          [] node.type = "CLOCK" -> "CLK"
          [] isSequential(node.type) -> node.type \o "(Q)"
          [] node.type = "OUTPUT" ->
                IF into = {} THEN "0"
                ELSE Rendered(gNodes, gEdges,
                              gEdges[CHOOSE x \in into :
                                        \A y \in into : x <= y].source)
          [] OTHER -> GateExpression(node.type, pins)

\* C17: on a graph without a cycle extractBooleanExpression renders every
\* occurrence of an INPUT node (or CLOCK, or register) as its label (its
\* token) and never emits the cycle placeholder, also when one source feeds
\* several gates in the cone of the same output.
C17_SharedSourcesRendered ==
    (/\ ret.done
     /\ ret.fn = "extractBooleanExpression"
     /\ ~HasDirectedCycle(call.nodes, call.edges))
    => ret.value = Rendered(call.nodes, call.edges, call.outputId)

\* The expression of the XOR built from two INPUT nodes A and B
C17_SharedInputExpression ==
    /\ ret.done
    /\ ret.fn = "extractBooleanExpression"
    /\ call.nodes = SharedNodes("INPUT", "INPUT")
    /\ Rendered(call.nodes, call.edges, call.outputId)
           = "((A . B') + (A' . B))"
    /\ ret.value = "((A . B') + (...' . ...))"

\* Where no source is reached twice the expression is the rendered one
C17_TreesRendered ==
    (/\ ret.done
     /\ ret.fn = "extractBooleanExpression"
     /\ call.nodes \notin {SharedNodes(k1, k2) : k1, k2 \in SharedSourceKinds}
     /\ \A i, j \in 1..Len(call.edges) :
          (call.edges[i].source = call.edges[j].source
           /\ call.edges[i].target = GateNodeId
           /\ call.edges[j].target = GateNodeId) => i = j)
    => ret.value = Rendered(call.nodes, call.edges, call.outputId)

\* ------------------------------------------------------------------------
\* SpecDiagnostics: a switch and a clock wired to the pins of one component
\* ------------------------------------------------------------------------

MaxDriverEdges == 2

DiagnosedKinds ==
    {"AND", "NOT", "OUTPUT", "D_FF", "JK_FF", "T_FF", "SR_LATCH", "IC_CUSTOM"}

\* The component under diagnosis; the IC instance is the node addICNode makes
\* for AndIC (inputCount: ic.inputPins.length)
DiagnosedNode(kind) ==
    IF kind = "IC_CUSTOM"
    THEN Node("node_3", "IC_CUSTOM", AndIC.name, Len(AndIC.inputPins), AndIC.id)
    ELSE Node("node_3", kind, kind, GATE_INPUT_COUNTS[kind], NoIcId)

\* The handle that pin i of the component is wired by: ICNode renders its
\* pins as ic-in-<pinId>, every other component as input-<i>
PinHandle(node, i) ==
    IF node.type = "IC_CUSTOM"
    THEN IcInHandle(AndIC.inputPins[i + 1].id)
    ELSE InputHandle(i)

OutputHandleOf(node) ==
    IF node.type = "IC_CUSTOM" THEN IcOutHandle(AndIC.outputPins[1].id)
    ELSE IF isSequential(node.type) THEN "Q"
    ELSE "output"

DiagNodes(kind) ==
    <<Node("node_1", "INPUT", "A", 0, NoIcId),
      Node("node_2", "CLOCK", "CLK", 0, NoIcId),
      DiagnosedNode(kind),
      Node("node_4", "OUTPUT", "Y0", 1, NoIcId)>>

\* wires[x] = <<source, pin>>; `read` adds the edge to the OUTPUT node
DiagEdges(kind, wires, read) ==
    [x \in 1..Len(wires) |->
        Edge(wires[x][1], "output", "node_3",
             PinHandle(DiagnosedNode(kind), wires[x][2]))]
    \o (IF read
        THEN <<Edge("node_3", OutputHandleOf(DiagnosedNode(kind)),
                    "node_4", InputHandle(0))>>
        ELSE <<>>)

DiagnosticsInit ==
    /\ \E kind \in DiagnosedKinds :
         \E n \in 0..MaxDriverEdges :
           \E wires \in [1..n -> {"node_1", "node_2"}
                                 \X (0..DiagnosedNode(kind).inputCount - 1)] :
             \E read \in BOOLEAN :
               \E high \in {"node_1", "node_2"} :
                 call = [name |-> "diagnosed",
                         nodes |-> DiagNodes(kind),
                         edges |-> DiagEdges(kind, wires, read),
                         inputValues |->
                            [id \in {"node_1", "node_2"} |-> id = high],
                         internalState |-> EmptyMap,
                         prevNodeOutputs |-> EmptyMap,
                         icLibrary |-> <<AndIC>>]
    /\ ret = NotReturned
    /\ StoreInit

\* The store runs the diagnostics on the nodeOutputs of the evaluation
CallRunDiagnostics ==
    /\ ~ret.done
    /\ ret' = Returned("runDiagnostics",
                       runDiagnostics(call.nodes, call.edges,
                           evaluateCircuit(call.nodes, call.edges,
                               call.inputValues, call.internalState,
                               call.prevNodeOutputs,
                               call.icLibrary).nodeOutputs))
    /\ UNCHANGED <<call, storeVars>>

DiagnosticsNext ==
    \/ CallEvaluateCircuit
    \/ CallRunDiagnostics

SpecDiagnostics == DiagnosticsInit /\ [][DiagnosticsNext]_vars

\* ------------------------------------------------------------------------
\* Properties of the diagnostics (checked under SpecDiagnostics)
\* ------------------------------------------------------------------------

\* Some edge drives pin i of the node
PinDriven(gNodes, gEdges, x, i) ==
    \E e \in 1..Len(gEdges) :
        /\ gEdges[e].target = gNodes[x].id
        /\ gEdges[e].targetHandle = PinHandle(gNodes[x], i)

IsClockPin(type, i) ==
    \/ type \in {"D_FF", "T_FF"} /\ i = 1
    \/ type = "JK_FF" /\ i = 2

\* The unconnected-pin warnings for pin i of the node
PinWarnings(reported, node, i) ==
    {n \in 1..Len(reported) :
        /\ reported[n].code \in {"UNCONNECTED_INPUT", "MISSING_CLOCK"}
        /\ reported[n].severity = "warning"
        /\ reported[n].nodeId = node.id
        /\ reported[n].handleId = InputHandle(i)}

\* C18: for every node other than INPUT and CLOCK, IC instances wired through
\* ic-in-<pinId> included, and each of its declared input pins, runDiagnostics
\* emits an unconnected-pin warning (MISSING_CLOCK for a register's CLK pin,
\* UNCONNECTED_INPUT otherwise) if and only if no edge drives that pin.
C18_WarningIffPinUndriven ==
    (ret.done /\ ret.fn = "runDiagnostics") =>
        \A x \in 1..Len(call.nodes) :
            call.nodes[x].type \notin {"INPUT", "CLOCK"} =>
                \A i \in 0..call.nodes[x].inputCount - 1 :
                    LET warnings == PinWarnings(ret.value, call.nodes[x], i)
                    IN  /\ (warnings # {})
                            <=> ~PinDriven(call.nodes, call.edges, x, i)
                        /\ \A n \in warnings :
                             (ret.value[n].code = "MISSING_CLOCK")
                                 <=> IsClockPin(call.nodes[x].type, i)

\* An IC instance with both pins driven, reported as unconnected
C18_DrivenInstanceWarned ==
    /\ ret.done
    /\ ret.fn = "runDiagnostics"
    /\ call.nodes[3].type = "IC_CUSTOM"
    /\ PinDriven(call.nodes, call.edges, 3, 0)
    /\ PinDriven(call.nodes, call.edges, 3, 1)
    /\ PinWarnings(ret.value, call.nodes[3], 0) # {}
    /\ PinWarnings(ret.value, call.nodes[3], 1) # {}

\* On the components wired through input-<i> the warnings are exact
C18_ExactOnGatePins ==
    (ret.done /\ ret.fn = "runDiagnostics") =>
        \A x \in 1..Len(call.nodes) :
            call.nodes[x].type \notin {"INPUT", "CLOCK", "IC_CUSTOM"} =>
                \A i \in 0..call.nodes[x].inputCount - 1 :
                    LET warnings == PinWarnings(ret.value, call.nodes[x], i)
                    IN  /\ Cardinality(warnings)
                            = IF PinDriven(call.nodes, call.edges, x, i)
                              THEN 0 ELSE 1
                        /\ \A n \in warnings :
                             (ret.value[n].code = "MISSING_CLOCK")
                                 <=> IsClockPin(call.nodes[x].type, i)

\* The edges with, for every (target, handle), only the last edge kept
LastDriversOnly(gEdges) ==
    LET last == {x \in 1..Len(gEdges) :
                    x = LastEdgeTo(gEdges, gEdges[x].target,
                                   gEdges[x].targetHandle)}
        nth(k) == CHOOSE x \in last : Cardinality({y \in last : y <= x}) = k
    IN  [k \in 1..Cardinality(last) |-> gEdges[nth(k)]]

\* The edges into handle input-<i> of the node
DriversOf(gEdges, node, i) ==
    {e \in 1..Len(gEdges) :
        /\ gEdges[e].target = node.id
        /\ gEdges[e].targetHandle = InputHandle(i)}

MultipleDriverErrors(reported, node, i) ==
    {n \in 1..Len(reported) :
        /\ reported[n].code = "MULTIPLE_DRIVERS"
        /\ reported[n].severity = "error"
        /\ reported[n].nodeId = node.id
        /\ reported[n].handleId = InputHandle(i)}

C19_WitnessSorted ==
    /\ ret.done
    /\ ret.fn = "runDiagnostics"
    /\ call.nodes[3].type = "AND"
    /\ Cardinality(DriversOf(call.edges, call.nodes[3], 1)) = 2
    /\ DriversOf(call.edges, call.nodes[3], 0) = {}
    /\ ret.value[1].code = "MULTIPLE_DRIVERS"
    /\ ret.value[1].id = IssueId(2)
    /\ ret.value[2].code = "UNCONNECTED_INPUT"
    /\ ret.value[2].id = IssueId(1)

\* ------------------------------------------------------------------------
\* SpecRecorder: a signal history buffer fed one tick after another
\* ------------------------------------------------------------------------

MaxHistoryDepth == 3
MaxRecordedTicks == 5

\* The nodeOutputs of one tick: nothing, a gate's output, or the gate's
\* output and a register's Q and Q_bar
RecordedOutputs ==
    {EmptyMap}
    \cup {[id \in {"node_1"} |-> [h \in {"output"} |-> b]] : b \in BOOLEAN}
    \cup {[id \in {"node_1", "node_2"} |->
              IF id = "node_1" THEN [h \in {"output"} |-> b]
              ELSE [h \in {"Q", "Q_bar"} |-> IF h = "Q" THEN ~b ELSE b]] :
          b \in BOOLEAN}

\* call.ticks lists the nodeOutputs recorded so far
RecorderInit ==
    /\ \E maxDepth \in 1..MaxHistoryDepth :
         /\ call = [name |-> "recorder", maxDepth |-> maxDepth, ticks |-> <<>>]
         /\ ret = Returned("createSignalHistory", createSignalHistory(maxDepth))
    /\ StoreInit

CallRecordTick ==
    /\ call.name = "recorder"
    /\ Len(call.ticks) < MaxRecordedTicks
    /\ \E outputs \in RecordedOutputs :
         /\ ret' = Returned("recordTick", recordTick(ret.value, outputs))
         /\ call' = [call EXCEPT !.ticks = Append(@, outputs)]
    /\ UNCHANGED storeVars

RecorderNext == CallRecordTick

SpecRecorder == RecorderInit /\ [][RecorderNext]_vars

\* ------------------------------------------------------------------------
\* Properties of the signal history (checked under SpecRecorder)
\* ------------------------------------------------------------------------

\* The ticks in which the pair (nodeId, handleId) had a sample
TicksWith(ticks, nodeId, handleId) ==
    {t \in 1..Len(ticks) :
        nodeId \in DOMAIN ticks[t] /\ handleId \in DOMAIN ticks[t][nodeId]}

\* The samples of the pair in the order they were recorded
SamplesOf(ticks, nodeId, handleId) ==
    LET present == TicksWith(ticks, nodeId, handleId)
        nth(k) == CHOOSE t \in present :
                      Cardinality({u \in present : u <= t}) = k
    IN  [k \in 1..Cardinality(present) |-> ticks[nth(k)][nodeId][handleId]]

LastOf(samples, n) ==
    SubSeq(samples, Len(samples) - n + 1, Len(samples))

RecordedPairs == {<<"node_1", "output">>, <<"node_2", "Q">>, <<"node_2", "Q_bar">>}

\* C20: after any sequence of recordTick calls on a buffer of max depth N,
\* every (node, handle) series has length at most N and equals the last
\* min(N, number of ticks in which the pair was present) values recorded for
\* the pair, in order, and tickCount equals the number of recordTick calls.
C20_RingBuffer ==
    (call.name = "recorder" /\ ret.done) =>
        LET buffer == ret.value
            N == call.maxDepth
        IN  /\ buffer.maxDepth = N
            /\ buffer.tickCount = Len(call.ticks)
            /\ \A pair \in RecordedPairs :
                 LET samples == SamplesOf(call.ticks, pair[1], pair[2])
                     kept == IF Len(samples) < N THEN Len(samples) ELSE N
                     series == Get(Get(buffer.data, pair[1], EmptyMap),
                                   pair[2], <<>>)
                 IN  /\ Len(series) <= N
                     /\ series = LastOf(samples, kept)
                     /\ (pair[1] \in DOMAIN buffer.data
                         /\ pair[2] \in DOMAIN buffer.data[pair[1]])
                        <=> samples # <<>>
            /\ \A nodeId \in DOMAIN buffer.data :
                 \A handleId \in DOMAIN buffer.data[nodeId] :
                     <<nodeId, handleId>> \in RecordedPairs

\* Depth 3, 5 ticks with a sample each: the last 3 are kept, the counter is
\* 5, and the register's series, present in 2 ticks only, holds both
C20_Witness ==
    /\ call.name = "recorder"
    /\ ret.done
    /\ ret.fn = "recordTick"
    /\ call.maxDepth = 3
    /\ ret.value.tickCount = 5
    /\ SamplesOf(call.ticks, "node_1", "output")
           = <<TRUE, TRUE, FALSE, TRUE, FALSE>>
    /\ Len(SamplesOf(call.ticks, "node_2", "Q")) = 2
    /\ ret.value.data["node_1"]["output"] = <<FALSE, TRUE, FALSE>>
    /\ Len(ret.value.data["node_2"]["Q"]) = 2

\* The length of the longest series the buffer retains (0 without a series)
LongestSeries(data) ==
    MaxOf({0} \cup UNION {{Len(data[nodeId][handleId]) :
                              handleId \in DOMAIN data[nodeId]} :
                          nodeId \in DOMAIN data})

\* C21 (as stated): in every state reached by createSignalHistory followed
\* by any number of recordTick calls, the tick counter is at most the length
\* of the longest retained series.
C21_TickCountWithinLongestSeries ==
    (call.name = "recorder" /\ ret.done) =>
        ret.value.tickCount <= LongestSeries(ret.value.data)

\* C21 (amended): the longest retained series is at most the tick counter
\* and at most maxDepth, the tick counter is the number of recordTick calls,
\* and so the counter exceeds every series once more than maxDepth ticks
\* were recorded.
C21_LongestSeriesWithinTickCount ==
    (call.name = "recorder" /\ ret.done) =>
        LET buffer == ret.value
            longest == LongestSeries(buffer.data)
        IN  /\ buffer.tickCount = Len(call.ticks)
            /\ longest <= buffer.tickCount
            /\ longest <= buffer.maxDepth
            /\ buffer.tickCount > buffer.maxDepth
                   => buffer.tickCount > longest

\* Depth 2, 4 ticks with a sample each: the series holds 2, the counter is 4
C21_Witness ==
    /\ call.name = "recorder"
    /\ ret.done
    /\ ret.fn = "recordTick"
    /\ call.maxDepth = 2
    /\ ret.value.tickCount = 4
    /\ Cardinality(TicksWith(call.ticks, "node_1", "output")) = 4
    /\ LongestSeries(ret.value.data) = 2

\* ------------------------------------------------------------------------
\* SpecPanel: switches and an output are added to an empty board, one after
\* another, each addition followed by its deferred evaluate()
\* ------------------------------------------------------------------------

MaxPanelInputs == 11

CountOf(type) ==
    Cardinality({i \in 1..Len(nodes) : nodes[i].data.gateType = type})

\* A NOT gate can be the first node, and be wired to itself right away
PanelNext ==
    \/ EvaluateCallback
    \/ timers = <<>> /\ CountOf("INPUT") < MaxPanelInputs /\ AddGateNode("INPUT")
    \/ timers = <<>> /\ CountOf("OUTPUT") < 1 /\ AddGateNode("OUTPUT")
    \/ timers = <<>> /\ nodes = <<>> /\ AddGateNode("NOT")
    \/ /\ timers = <<>>
       /\ Len(nodes) = 1
       /\ CountOf("NOT") = 1
       /\ edges = <<>>
       /\ OnConnect([source |-> nodes[1].id, sourceHandle |-> "output",
                     target |-> nodes[1].id, targetHandle |-> InputHandle(0)])

SpecPanel == StoreSessionInit /\ [][PanelNext]_vars

\* ------------------------------------------------------------------------
\* Properties of the analysis panel's fields (checked under SpecPanel)
\* ------------------------------------------------------------------------

\* C15: after a store evaluate() on a circuit without a combinational cycle,
\* truthTable is non-null exactly when the circuit has at least one INPUT
\* node, at least one OUTPUT node and at most 10 INPUT nodes, and
\* inputCountWarning is non-null exactly when there are more than 8 INPUT
\* nodes; with 9 or 10 inputs the table is still generated.
C15_TableAndWarningGuards ==
    [][(EvaluateCallback
        /\ ~HasRegisterFreeCycle(EngineNodes(nodes), EngineEdges(edges)))
       => /\ (truthTable' # NullTable)
               <=> (/\ CountOf("INPUT") >= 1
                    /\ CountOf("OUTPUT") >= 1
                    /\ CountOf("INPUT") <= 10)
          /\ (inputCountWarning' # NoWarning) <=> (CountOf("INPUT") > 8)
          /\ (CountOf("INPUT") \in {9, 10} /\ CountOf("OUTPUT") >= 1)
               => /\ truthTable' # NullTable
                  /\ Len(truthTable'.rows) = 2 ^ CountOf("INPUT")]_vars

\* Nine switches and an output: the table has 512 rows and the warning is set
C15_Witness ==
    /\ timers = <<>>
    /\ CountOf("INPUT") = 9
    /\ CountOf("OUTPUT") = 1
    /\ ~hasCycle
    /\ truthTable # NullTable
    /\ Len(truthTable.rows) = 512
    /\ inputCountWarning # NoWarning

\* Ten switches: the table is generated; eleven: it is not
C15_WitnessTen ==
    /\ timers = <<>>
    /\ CountOf("INPUT") = 10
    /\ CountOf("OUTPUT") = 1
    /\ truthTable # NullTable
    /\ Len(truthTable.rows) = 1024
    /\ inputCountWarning # NoWarning

C15_WitnessEleven ==
    /\ timers = <<>>
    /\ CountOf("INPUT") = 11
    /\ CountOf("OUTPUT") = 1
    /\ truthTable = NullTable
    /\ inputCountWarning # NoWarning

\* On the self-wired NOT gate evaluate() takes the cycle branch
C15_WitnessCycle ==
    /\ timers = <<>>
    /\ hasCycle
    /\ CountOf("INPUT") >= 1
    /\ CountOf("OUTPUT") = 1
    /\ truthTable = NullTable

\* ------------------------------------------------------------------------
\* SpecInstances: the AND circuit of a loaded file is packaged as an IC, an
\* instance of it is placed and wired to the switches and to a free output,
\* and the switches are toggled
\* ------------------------------------------------------------------------

MaxInstanceSnapshots == 7
MaxInstanceTicks == 1

\* The AND circuit and a second, unwired output
SocketBoard ==
    [nodes |-> AndBoard.nodes \o <<FileNode("node_5", "OUTPUT", "Y1")>>,
     edges |-> AndBoard.edges,
     inputValues |-> AndBoard.inputValues]

\* A box selection of the AND circuit
SelectAndCircuit ==
    {[type |-> "select", id |-> id, selected |-> TRUE] :
        id \in {"node_1", "node_2", "node_3", "node_4"}}

\* The IC_CUSTOM nodes on the canvas
Instances ==
    {i \in 1..Len(nodes) : nodes[i].data.gateType = "IC_CUSTOM"}

\* The wires drawn to the instance, pin after pin: the switches to its
\* ic-in handles, its ic-out handle to the free output
InstanceWiring(instance) ==
    LET pins == instance.data.inputPins
    IN  [i \in 1..Len(pins) |->
            [source |-> pins[i].id, sourceHandle |-> "output",
             target |-> instance.id, targetHandle |-> IcInHandle(pins[i].id)]]
        \o <<[source |-> instance.id,
              sourceHandle |-> IcOutHandle(instance.data.outputPins[1].id),
              target |-> "node_5", targetHandle |-> InputHandle(0)]>>

\* The next wire to draw, if any
NextWire ==
    {InstanceWiring(nodes[i])[Len(edges) - Len(SocketBoard.edges) + 1] :
        i \in {j \in Instances :
                  Len(edges) - Len(SocketBoard.edges)
                      < Len(InstanceWiring(nodes[j]))}}

InstancesNext ==
    \/ nodes = <<>> /\ LoadCircuit(SocketBoard)
    \/ LoadedCallback
    \/ EvaluateCallback
    \/ /\ icLibrary = <<>>
       /\ SelectedNodeIds = {}
       /\ nodes # <<>>
       /\ OnNodesChange(SelectAndCircuit)
    \/ icLibrary = <<>> /\ CreateIC("AND2", "ic_1")
    \/ /\ timers = <<>>
       /\ Instances = {}
       /\ HistoryRoom(MaxInstanceSnapshots)
       /\ \E icId \in {"ic_1", "ic_2"} : AddICNode(icId)
    \/ /\ timers = <<>>
       /\ HistoryRoom(MaxInstanceSnapshots)
       /\ \E connection \in NextWire : OnConnect(connection)
    \/ /\ timers = <<>>
       /\ Instances # {}
       /\ NextWire = {}
       /\ HistoryRoom(MaxInstanceSnapshots)
       /\ \E nodeId \in InputSwitches : ToggleInput(nodeId)
    \/ /\ timers = <<>>
       /\ signalHistory.tickCount < MaxInstanceTicks
       /\ Tick

SpecInstances == StoreSessionInit /\ [][InstancesNext]_vars

\* ------------------------------------------------------------------------
\* Properties of placed IC instances (checked under SpecInstances)
\* ------------------------------------------------------------------------

\* The level that drives handle `handleId` of node `nodeId` in nodeOutputs
DrivenLevel(nodeId, handleId) ==
    LET E == EngineEdges(edges)
        S == {i \in 1..Len(E) : E[i].target = nodeId /\ E[i].targetHandle = handleId}
    IN  IF S = {} THEN FALSE
        ELSE getPrimaryOutput(nodeOutputs, E[MaxOf(S)].source,
                              E[MaxOf(S)].sourceHandle)

\* The outputs of the definition's sub-circuit for the levels that drive the
\* instance's ic-in handles
SubCircuitOutputs(instance, definition) ==
    evaluateCircuit(definition.nodes, definition.edges,
        [p \in {definition.inputPins[i].id : i \in 1..Len(definition.inputPins)} |->
            DrivenLevel(instance.id, IcInHandle(p))],
        EmptyMap, EmptyMap, icLibrary).circuitOutputs

\* C25: after evaluate() and tick(), an instance placed with addICNode whose
\* definition is in icLibrary shows on each ic-out-<pinId> handle the output
\* of the definition's sub-circuit for the values driving its ic-in-<pinId>
\* handles.
C25_InstanceResolvedAgainstLibrary ==
    (timers = <<>> /\ ~hasCycle) =>
        \A i \in Instances :
            \A k \in 1..Len(icLibrary) :
                icLibrary[k].id = nodes[i].data.icId =>
                    \A j \in 1..Len(icLibrary[k].outputPins) :
                        LET pin == icLibrary[k].outputPins[j].id
                        IN  Get(Get(nodeOutputs, nodes[i].id, EmptyMap),
                                IcOutHandle(pin), FALSE)
                            = SubCircuitOutputs(nodes[i], icLibrary[k])[pin]

\* The instance of the AND definition, wired to the switches A = B = 1 that
\* also drive the AND gate: Y0 on the gate is on, Y1 on the instance is off
C25_InstanceReadsFalse ==
    /\ timers = <<>>
    /\ Instances # {}
    /\ Len(edges) = Len(SocketBoard.edges) + 3
    /\ Get(inputValues, "node_1", FALSE)
    /\ Get(inputValues, "node_2", FALSE)
    /\ getPrimaryOutput(nodeOutputs, "node_4", "output")
    /\ ~getPrimaryOutput(nodeOutputs, "node_5", "output")
    /\ DOMAIN nodeOutputs["node_6"] = {"output"}

\* ------------------------------------------------------------------------
\* The truth table against the live evaluation (checked under SpecEngine)
\* ------------------------------------------------------------------------

\* No register on the canvas, and none, nor a further instance, inside the
\* definition of any instance on it
RegisterFreeCircuit(gNodes, library) ==
    \A i \in 1..Len(gNodes) :
        /\ ~isSequential(gNodes[i].type)
        /\ gNodes[i].type = "IC_CUSTOM" =>
             \A k \in 1..Len(library) :
                library[k].id = gNodes[i].icId =>
                    \A j \in 1..Len(library[k].nodes) :
                        /\ ~isSequential(library[k].nodes[j].type)
                        /\ library[k].nodes[j].type # "IC_CUSTOM"

\* C26: for a register-free circuit without a cycle, the outputs of the
\* truth-table row of an input assignment equal the circuitOutputs that
\* evaluateCircuit, called with the icLibrary, returns for that assignment,
\* also when the circuit contains IC instances.
C26_TableRowsEqualLiveOutputs ==
    (/\ ret.done
     /\ ret.fn = "evaluateCircuit"
     /\ ~ret.value.hasCycle
     /\ RegisterFreeCircuit(call.nodes, call.icLibrary)) =>
        LET table == generateTruthTable(call.nodes, call.edges)
            outs == OutputsOf(call.nodes)
        IN  \A i \in 0..(Len(table.rows) - 1) :
                BinaryAssignment(call.nodes, i) = call.inputValues =>
                    \A y \in outs :
                        UniqueLabel(call.nodes, outs, y) =>
                            table.rows[i + 1].outputs[call.nodes[y].label]
                                = Get(ret.value.circuitOutputs,
                                      call.nodes[y].id, FALSE)

\* The instance of the AND definition with A = B = 1: the evaluation has
\* Y7 = 1, the table's row 11 has Y7 = 0
C26_WrappedAndRowDiffers ==
    /\ ret.done
    /\ ret.fn = "evaluateCircuit"
    /\ call.name = "wrapped and"
    /\ call.inputValues = [id \in {"node_35", "node_36"} |-> TRUE]
    /\ ret.value.circuitOutputs["node_38"]
    /\ ~generateTruthTable(call.nodes, call.edges).rows[4].outputs["Y7"]

\* Without an IC instance the rows equal the live outputs
C26_PlainCircuitsAgree ==
    (\A i \in 1..Len(call.nodes) : call.nodes[i].type # "IC_CUSTOM")
        => C26_TableRowsEqualLiveOutputs

\* ------------------------------------------------------------------------
\* SpecHistory: a session of edits, undo and redo on a board that starts
\* empty, with ticks and deferred callbacks in between. call notes the last
\* user action: its name, whether it had an effect to make (`acted`: for
\* undo and redo, canUndo() and canRedo() at the call), whether no callback
\* ran since (`direct`), the circuit as it was before it, and the same for
\* the user action before it.
\* ------------------------------------------------------------------------

\* User actions and ticks of one session
MaxSessionSteps == 4

HistoryPalette == {"INPUT", "NOT"}

\* The fields a snapshot keeps
Circuit ==
    [nodes |-> nodes, edges |-> edges, inputValues |-> inputValues,
     internalState |-> internalState, prevNodeOutputs |-> prevNodeOutputs]

Noted(action, acted) ==
    [name |-> "session", steps |-> call.steps + 1, last |-> action,
     acted |-> acted, direct |-> TRUE,
     before |-> Circuit, priorLast |-> call.last, priorActed |-> call.acted,
     priorDirect |-> call.direct, priorBefore |-> call.before]

HistoryInit ==
    /\ StoreInit
    /\ call = [name |-> "session", steps |-> 0, last |-> "none", acted |-> FALSE,
               direct |-> FALSE, before |-> Circuit, priorLast |-> "none",
               priorActed |-> FALSE, priorDirect |-> FALSE,
               priorBefore |-> Circuit]
    /\ ret = NotReturned

UserAddGateNode(type) ==
    /\ Commit(addGateNode(Store, type))
    /\ call' = Noted("addGateNode", TRUE)
    /\ UNCHANGED ret

UserToggleInput(nodeId) ==
    /\ Commit(toggleInput(Store, nodeId))
    /\ call' = Noted("toggleInput", TRUE)
    /\ UNCHANGED ret

UserConnect(connection) ==
    /\ Commit(onConnect(Store, connection))
    /\ call' = Noted("onConnect", TRUE)
    /\ UNCHANGED ret

UserSelect(changes) ==
    /\ Commit(onNodesChange(Store, changes))
    /\ call' = Noted("select", TRUE)
    /\ UNCHANGED ret

UserDeleteSelected ==
    /\ Commit(deleteSelected(Store))
    /\ call' = Noted("deleteSelected", TRUE)
    /\ UNCHANGED ret

UserDuplicateSelected ==
    /\ Commit(duplicateSelected(Store))
    /\ call' = Noted("duplicateSelected", TRUE)
    /\ UNCHANGED ret

UserClearCircuit ==
    /\ Commit(clearCircuit(Store))
    /\ call' = Noted("clearCircuit", TRUE)
    /\ UNCHANGED ret

\* Ctrl+Z, which calls undo() whether or not the button is enabled
UserUndo ==
    /\ Commit(undo(Store))
    /\ call' = Noted("undo", canUndo(Store))
    /\ UNCHANGED ret

UserRedo ==
    /\ Commit(redo(Store))
    /\ call' = Noted("redo", canRedo(Store))
    /\ UNCHANGED ret

ClockTick ==
    /\ Commit(tick(Store))
    /\ call' = Noted("tick", TRUE)
    /\ UNCHANGED ret

\* The oldest deferred callback runs
DeferredEvaluate ==
    /\ timers # <<>>
    /\ Head(timers) = "evaluate"
    /\ Commit(evaluate([Store EXCEPT !.timers = Tail(@)]))
    /\ call' = [call EXCEPT !.direct = FALSE]
    /\ UNCHANGED ret

DeferredRestored ==
    /\ timers # <<>>
    /\ Head(timers) = "restored"
    /\ Commit(restoredCallback([Store EXCEPT !.timers = Tail(@)]))
    /\ call' = [call EXCEPT !.direct = FALSE]
    /\ UNCHANGED ret

\* A click on the newest node while nothing is selected
ClickSelections ==
    {{[type |-> "select", id |-> nodes[i].id, selected |-> TRUE]} :
        i \in {j \in {Len(nodes)} \ {0} : \A k \in 1..Len(nodes) : ~nodes[k].selected}}

\* The user acts when no callback waits, or right after an undo or redo,
\* before its callback ran
CallbackRoom == timers = <<>> \/ timers = <<"restored">>

\* Room for one more user action or tick
SessionRoom == CallbackRoom /\ call.steps < MaxSessionSteps

HistoryNext ==
    \/ SessionRoom /\ \E type \in HistoryPalette : UserAddGateNode(type)
    \/ SessionRoom /\ \E nodeId \in InputSwitches : UserToggleInput(nodeId)
    \/ SessionRoom /\ \E connection \in Connections : UserConnect(connection)
    \/ SessionRoom /\ \E changes \in ClickSelections : UserSelect(changes)
    \/ SessionRoom /\ UserDeleteSelected
    \/ SessionRoom /\ UserDuplicateSelected
    \/ SessionRoom /\ UserClearCircuit
    \/ SessionRoom /\ UserUndo
    \/ SessionRoom /\ UserRedo
    \/ SessionRoom /\ ClockTick
    \/ DeferredEvaluate
    \/ DeferredRestored

SpecHistory == HistoryInit /\ [][HistoryNext]_vars

\* The oldest callback handed to setTimeout leaves the queue: the step of
\* DeferredEvaluate and of DeferredRestored, and of no other action
RunsOldestCallback == timers # <<>> /\ timers' = Tail(timers)

\* The same specification with the event loop's guarantee that a callback
\* handed to setTimeout is run
SpecHistoryFair == SpecHistory /\ WF_timers(RunsOldestCallback)

\* ------------------------------------------------------------------------
\* Properties of undo and redo (checked under SpecHistory)
\* ------------------------------------------------------------------------

UndoableActions ==
    {"addGateNode", "toggleInput", "onConnect", "deleteSelected",
     "duplicateSelected", "clearCircuit"}

\* C27: one undo() issued directly after an undoable action restores nodes,
\* edges and inputValues to their values immediately before that action;
\* in particular the first action on a fresh store can be undone.
C27_UndoRestoresStateBeforeAction ==
    (/\ call.name = "session"
     /\ call.last = "undo"
     /\ call.direct
     /\ call.priorLast \in UndoableActions) =>
        /\ nodes = call.priorBefore.nodes
        /\ edges = call.priorBefore.edges
        /\ inputValues = call.priorBefore.inputValues

\* The first action on the fresh store, addGateNode, and then undo(): the
\* node is still there and nothing waits to run
C27_FirstActionNotUndone ==
    /\ call.name = "session"
    /\ call.steps = 2
    /\ call.last = "undo"
    /\ call.priorLast = "addGateNode"
    /\ call.priorBefore.nodes = <<>>
    /\ Len(nodes) = 1
    /\ ~isUndoRedoing

\* Two nodes were added and undo() took both away: the store is back at the
\* state before the first of the two actions
C27_UndoTakesTwoActions ==
    /\ call.name = "session"
    /\ call.steps = 3
    /\ call.last = "undo"
    /\ call.direct
    /\ call.priorLast = "addGateNode"
    /\ Len(call.priorBefore.nodes) = 1
    /\ nodes = <<>>

\* C28: whenever canUndo() is true, undo() followed directly by redo()
\* restores nodes, edges, inputValues, internalState and prevNodeOutputs to
\* their values before the undo.
C28_RedoRestoresStateBeforeUndo ==
    (/\ call.name = "session"
     /\ call.last = "redo"
     /\ call.direct
     /\ call.priorLast = "undo"
     /\ call.priorActed
     /\ call.priorDirect) =>
        Circuit = call.priorBefore

\* Two nodes were added; undo() and redo() left one node
C28_RedoStopsShort ==
    /\ call.name = "session"
    /\ call.steps = 4
    /\ call.last = "redo"
    /\ call.direct
    /\ call.priorLast = "undo"
    /\ call.priorActed
    /\ call.priorDirect
    /\ Len(call.priorBefore.nodes) = 2
    /\ Len(nodes) = 1

\* ------------------------------------------------------------------------
\* The isUndoRedoing window (checked under SpecHistoryFair)
\* ------------------------------------------------------------------------

\* A step of a handler that calls pushHistory() first
PushingStep ==
    \/ \E type \in HistoryPalette : UserAddGateNode(type)
    \/ \E nodeId \in InputSwitches : UserToggleInput(nodeId)
    \/ \E connection \in Connections : UserConnect(connection)
    \/ UserDeleteSelected
    \/ UserDuplicateSelected
    \/ UserClearCircuit

RestoredPending == \E i \in 1..Len(timers) : timers[i] = "restored"

\* C30: under every interleaving of user actions, ticks and deferred
\* callbacks, isUndoRedoing is true only between an undo() or redo() and the
\* run of its deferred callback: it becomes true by an undo or redo that
\* acts, and while it is true such a callback waits; it is eventually false
\* again after every undo and redo; and while it is true pushHistory
\* leaves history and historyIndex unchanged, so addGateNode and
\* toggleInput in that window change the circuit without a snapshot.
C30_UndoRedoWindow ==
    /\ [](isUndoRedoing => RestoredPending)
    /\ [][(~isUndoRedoing /\ isUndoRedoing')
            => ((UserUndo \/ UserRedo) /\ call'.acted)]_vars
    /\ [][((UserUndo \/ UserRedo) /\ call'.acted) => isUndoRedoing']_vars
    /\ [][DeferredRestored => ~isUndoRedoing']_vars
    /\ (isUndoRedoing ~> ~isUndoRedoing)
    /\ [][(isUndoRedoing /\ PushingStep)
            => /\ UNCHANGED <<history, historyIndex>>
               /\ isUndoRedoing'
               /\ call'.last \in {"addGateNode", "toggleInput"}
                    => Circuit' # Circuit]_vars

\* A node was added right after an undo, before its callback ran: the board
\* has the node, the history still ends with the snapshot the undo went to
C30_Witness ==
    /\ call.name = "session"
    /\ call.last = "addGateNode"
    /\ call.direct
    /\ call.priorLast = "undo"
    /\ call.priorActed
    /\ call.priorDirect
    /\ isUndoRedoing
    /\ timers = <<"restored", "evaluate">>
    /\ historyIndex = 0
    /\ Len(history) = 2
    /\ Len(nodes) = Len(history[1].nodes) + 1

\* ------------------------------------------------------------------------
\* SpecLongHistory: one switch is put on the empty board and toggled until
\* the history is full and beyond, with the deferred callbacks in between
\* and with undo and redo while the history is short or full. Of the steps
\* of a session at most MaxRestores add no snapshot (those of undo and
\* redo, and of edits between an undo or redo and its callback).
\* ------------------------------------------------------------------------

\* User actions of one long session (more than MAX_HISTORY)
MaxLongSteps == 52

\* Steps of a session that add no snapshot
MaxRestores == 2

\* The longest history that counts as short
MaxShortHistory == 3

LongRoom == CallbackRoom /\ call.steps < MaxLongSteps

RestoreRoom ==
    /\ call.steps - Len(history) < MaxRestores
    /\ Len(history) <= MaxShortHistory \/ Len(history) = MAX_HISTORY

LongNext ==
    \/ LongRoom /\ nodes = <<>> /\ UserAddGateNode("INPUT")
    \/ LongRoom /\ \E nodeId \in InputSwitches : UserToggleInput(nodeId)
    \/ LongRoom /\ RestoreRoom /\ UserUndo
    \/ LongRoom /\ RestoreRoom /\ UserRedo
    \/ DeferredEvaluate
    \/ DeferredRestored

SpecLongHistory == HistoryInit /\ [][LongNext]_vars

\* ------------------------------------------------------------------------
\* Properties of the history (checked under SpecLongHistory)
\* ------------------------------------------------------------------------

\* history and historyIndex stay within their bounds
HistoryWithinBounds ==
    /\ Len(history) <= MAX_HISTORY
    /\ -1 <= historyIndex
    /\ historyIndex <= Len(history) - 1

\* The step pushed one snapshot: what came after historyIndex is gone, the
\* circuit as it was is the last snapshot, the oldest is gone when the
\* length would exceed MAX_HISTORY, and historyIndex is the last position
SnapshotPushed ==
    LET kept == historyIndex + 1
        dropped == IF kept + 1 > MAX_HISTORY THEN 1 ELSE 0
    IN  /\ Len(history') = kept + 1 - dropped
        /\ \A i \in 1..(kept - dropped) : history'[i] = history[i + dropped]
        /\ history'[Len(history')] = Circuit
        /\ historyIndex' = Len(history') - 1

\* C29: in every reachable store state history holds at most 50 snapshots
\* and -1 <= historyIndex <= history.length - 1; pushHistory discards every
\* snapshot after historyIndex, appends one snapshot, drops the oldest when
\* the length would exceed 50 and leaves historyIndex at the last position;
\* undo and redo change historyIndex by exactly one and never change
\* history.
C29_HistoryShape ==
    /\ []HistoryWithinBounds
    /\ [][PushingStep => SnapshotPushed]_vars
    /\ [][UserUndo => /\ UNCHANGED history
                      /\ historyIndex' = historyIndex - 1]_vars
    /\ [][UserRedo => /\ UNCHANGED history
                      /\ historyIndex' = historyIndex + 1]_vars

\* C29 as the store has it: the bounds hold in every reachable state;
\* pushHistory does the above while isUndoRedoing is false and nothing to
\* history and historyIndex while it is true; undo lowers historyIndex by
\* exactly one when canUndo() is true, redo raises it by exactly one when
\* canRedo() is true, otherwise they leave it; undo, redo and the deferred
\* callbacks never change history.
C29_HistoryShapeWhenActing ==
    /\ []HistoryWithinBounds
    /\ [][(PushingStep /\ ~isUndoRedoing) => SnapshotPushed]_vars
    /\ [][(PushingStep /\ isUndoRedoing)
            => UNCHANGED <<history, historyIndex>>]_vars
    /\ [][UserUndo => /\ UNCHANGED history
                      /\ historyIndex' = IF historyIndex > 0
                                         THEN historyIndex - 1
                                         ELSE historyIndex]_vars
    /\ [][UserRedo => /\ UNCHANGED history
                      /\ historyIndex' = IF historyIndex < Len(history) - 1
                                         THEN historyIndex + 1
                                         ELSE historyIndex]_vars
    /\ [][(DeferredEvaluate \/ DeferredRestored)
            => UNCHANGED <<history, historyIndex>>]_vars

\* The history is full and the last toggle dropped the oldest snapshot, the
\* one of the empty board
C29_Witness ==
    /\ call.name = "session"
    /\ call.last = "toggleInput"
    /\ call.steps > MAX_HISTORY
    /\ Len(history) = MAX_HISTORY
    /\ historyIndex = MAX_HISTORY - 1
    /\ history[1].nodes # <<>>
    /\ history[MAX_HISTORY] = call.before

\* A toggle after an undo and its callback: the snapshot above historyIndex
\* was discarded, so five actions left three snapshots
C29_WitnessDiscarded ==
    /\ call.name = "session"
    /\ call.steps = 5
    /\ call.last = "toggleInput"
    /\ call.priorLast = "undo"
    /\ call.priorActed
    /\ ~call.priorDirect
    /\ Len(history) = 3
    /\ historyIndex = 2
    /\ history[3] = call.before

Spec == SpecGates
====
